---- MODULE Spec2Model ----
(***************************************************************************)
(* Session coordination engine of "Wir koennen uns nicht entscheiden":    *)
(* the store (database.py) as two tables, the session operations          *)
(* (session.py) as atomic actions over them.                              *)
(*                                                                         *)
(* Strings are sequences of one-character strings, so that normalisation  *)
(* and stripping are computed character by character as the code does.    *)
(* time.time() is the variable now, in seconds.                            *)
(***************************************************************************)
EXTENDS Integers, Sequences, FiniteSets, TLC

VARIABLES
    sessions,   \* table sessions: session_id -> row
    members,    \* table members: rows in insertion (rowid) order
    now,        \* time.time()
    ret,        \* the operation that ran last and what it returned
    calls,      \* the call each page is executing, store call by store call
    done        \* member id -> the calls the member has completed

vars == <<sessions, members, now, ret, calls, done>>

\* The store as one value, and an operation run atomically: r is what the
\* operation computed, [db |-> the store afterwards, out |-> its return value].
D == [sessions |-> sessions, members |-> members]

Returned(op, session_id, member_id, arg, r) ==
    /\ sessions' = r.db.sessions
    /\ members' = r.db.members
    /\ ret' = [op |-> op, session_id |-> session_id, member_id |-> member_id,
               arg |-> arg, out |-> r.out]
    /\ UNCHANGED <<now, calls, done>>

-----------------------------------------------------------------------------
(* Bounds of the model *)

MaxTicks == 2       \* the clock stops after this many ticks
MaxItems == 2       \* longest items list a member is let to build
MaxAccepted == 1    \* longest accepted_items list passed to set_accepted_items
MaxExcluded == 1    \* longest excluded_items list roll_next is let to build
MaxDraw == 1        \* random.randint draws lo + k for k in 0..MaxDraw (wrapping at hi)
MaxTextLen == 3     \* normalize_item is applied to the strings of up to MaxTextLen characters
MaxPairLen == 2     \* items_equal to the pairs of strings of up to MaxPairLen characters
MaxLength == 3      \* fair_random_select is called with lengths -1..MaxLength
MaxRandDraw == 20   \* and with the MaxRandDraw + 1 lowest and highest values of randint

SessionCodes == {"S1"}
MemberIds == {"m1", "m2", "m3"}

\* Item texts the members type: "a", " A!", "b", " " and "!".
Texts == { <<"a">>, <<" ", "A", "!">>, <<"b">>, <<" ">>, <<"!">> }

\* The inputs a specification draws from: who creates sessions, who calls the
\* operations, and the item texts typed.
ScopeBarrier == [creators |-> {"m1"}, members |-> MemberIds, texts |-> {<<"a">>}]
ScopeOps == [creators |-> {"m1"}, members |-> {"m1", "m2"}, texts |-> {<<"a">>}]
\* roll_next is also called with an item that no member holds
ScopeRolls == [creators |-> {"m1"}, members |-> {"m1", "m2"}, texts |-> {<<"a">>, <<"b">>}]
ScopeMembers == [creators |-> {"m1"}, members |-> {"m1", "m2"}, texts |-> {<<"a">>}]
ScopeObservers == [creators |-> {"m1"}, members |-> {"m1", "m2"}, texts |-> {<<"a">>}]
ScopeGroups == [creators |-> {"m1"}, members |-> {"m1", "m2"},
                texts |-> {<<"a">>, <<"A", "!">>, <<"b">>}]
ScopeSelect == [creators |-> {"m1"}, members |-> {"m1", "m2"},
                texts |-> {<<"a">>, <<"b">>}]
ScopeApp == [creators |-> {"m1"}, members |-> {"m1", "m2"}, texts |-> {<<"a">>, <<"b">>}]
ScopeFailures == [creators |-> {"m1"}, members |-> {"m1", "m2"},
                  texts |-> {<<"a">>, <<" ">>}]
ScopeItems == [creators |-> {"m1"}, members |-> {"m1", "m2"}, texts |-> Texts]

-----------------------------------------------------------------------------
(* Program constants *)

AUTO_READY_TIMEOUT == 2 * 60

\* One tick of the clock: the timeout itself, so that a member is seen exactly
\* AUTO_READY_TIMEOUT ago (not yet stale) before it is seen longer ago (stale).
TickSeconds == AUTO_READY_TIMEOUT

PHASE_ADDING == "adding"
PHASE_ACCEPTING == "accepting"
PHASE_RESULT == "result"

None == "None"

-----------------------------------------------------------------------------
(* Characters *)

Whitespace == {" "}
LowerCase == {"a", "b"}
UpperCase == {"A", "B"}
Digits == {"1"}
Punctuation == {"!"}
Alphabet == Whitespace \cup LowerCase \cup UpperCase \cup Digits \cup Punctuation

\* str.lower() on one character
lower(c) == CASE c = "A" -> "a" [] c = "B" -> "b" [] OTHER -> c

\* re.sub(pattern, "", s) for a pattern that is a character class
re_sub_class(class, s) == SelectSeq(s, LAMBDA c : c \notin class)

RECURSIVE lstrip(_)
lstrip(s) ==
    IF s # <<>> /\ Head(s) \in Whitespace THEN lstrip(Tail(s)) ELSE s

RECURSIVE rstrip(_)
rstrip(s) ==
    IF s # <<>> /\ s[Len(s)] \in Whitespace
    THEN rstrip(SubSeq(s, 1, Len(s) - 1))
    ELSE s

\* str.strip()
strip(s) == rstrip(lstrip(s))

-----------------------------------------------------------------------------
(* session.py: normalisation and duplicate detection *)

\* normalize_item without the conversion to lower case
normalize_item_case_sensitive(item) ==
    LET no_space == re_sub_class(Whitespace, item)
    IN  re_sub_class(Alphabet \ (LowerCase \cup UpperCase \cup Digits), no_space)

normalize_item(item) ==
    LET no_space == re_sub_class(Whitespace, item)
        alnum == re_sub_class(Alphabet \ (LowerCase \cup UpperCase \cup Digits), no_space)
    IN  [i \in 1..Len(alnum) |-> lower(alnum[i])]

items_equal(item1, item2) == normalize_item(item1) = normalize_item(item2)

\* is_duplicate_item comparing the texts as typed
is_duplicate_item_as_typed(new_item, existing_items) ==
    LET new_normalized == normalize_item(new_item)
    IN  IF new_normalized = <<>>
        THEN TRUE
        ELSE \E i \in 1..Len(existing_items) : existing_items[i] = new_item

is_duplicate_item(new_item, existing_items) ==
    LET new_normalized == normalize_item(new_item)
    IN  IF new_normalized = <<>>
        THEN TRUE
        ELSE \E i \in 1..Len(existing_items) :
                 normalize_item(existing_items[i]) = new_normalized

-----------------------------------------------------------------------------
(* database.py: the store.  A store value d is a record                    *)
(* [sessions |-> table, members |-> table]; every function below returns   *)
(* the store after its transaction has committed.                          *)

session_exists(d, session_id) == session_id \in DOMAIN d.sessions

\* get_session: the row (read only where session_exists holds)
get_session(d, session_id) == d.sessions[session_id]

\* UPDATE sessions SET last_activity = ? WHERE session_id = ?
touch_session(tbl, session_id, t) ==
    [s \in DOMAIN tbl |->
        IF s = session_id THEN [tbl[s] EXCEPT !.last_activity = t] ELSE tbl[s]]

update_session_activity(d, session_id, t) ==
    [d EXCEPT !.sessions = touch_session(d.sessions, session_id, t)]

has_member(d, session_id, member_id) ==
    \E i \in 1..Len(d.members) :
        /\ d.members[i].session_id = session_id
        /\ d.members[i].member_id = member_id

\* get_member: the row (read only where has_member holds)
get_member(d, session_id, member_id) ==
    d.members[CHOOSE i \in 1..Len(d.members) :
                  /\ d.members[i].session_id = session_id
                  /\ d.members[i].member_id = member_id]

get_all_members(d, session_id) ==
    SelectSeq(d.members, LAMBDA r : r.session_id = session_id)

\* get_active_members without WHERE is_observer = 0
get_active_members_with_observers(d, session_id) == get_all_members(d, session_id)

get_active_members(d, session_id) ==
    SelectSeq(get_all_members(d, session_id), LAMBDA r : ~r.is_observer)

new_member_row(session_id, member_id, is_observer, t) ==
    [session_id |-> session_id, member_id |-> member_id, items |-> <<>>,
     is_ready |-> FALSE, accepted_items |-> <<>>, is_observer |-> is_observer,
     last_seen |-> t]

\* create_session: [db |-> the store afterwards, ok |-> the return value]
db_create_session(d, session_id, creator_id, t) ==
    IF session_exists(d, session_id) \/ has_member(d, session_id, creator_id)
    THEN [db |-> d, ok |-> FALSE]      \* IntegrityError, rolled back
    ELSE [db |-> [sessions |->
                      (session_id :> [session_id |-> session_id,
                                      creator_id |-> creator_id,
                                      phase |-> "adding",
                                      created_at |-> t,
                                      last_activity |-> t,
                                      excluded_items |-> <<>>,
                                      restart_votes |-> <<>>]) @@ d.sessions,
                  members |->
                      Append(d.members, new_member_row(session_id, creator_id, FALSE, t))],
          ok |-> TRUE]

set_session_phase(d, session_id, phase, t) ==
    [d EXCEPT !.sessions =
        [s \in DOMAIN d.sessions |->
            IF s = session_id
            THEN [d.sessions[s] EXCEPT !.phase = phase, !.last_activity = t]
            ELSE d.sessions[s]]]

get_session_creator(d, session_id) ==
    IF session_exists(d, session_id) THEN d.sessions[session_id].creator_id ELSE None

\* add_member: [db |-> the store afterwards, ok |-> the return value]
add_member(d, session_id, member_id, is_observer, t) ==
    IF has_member(d, session_id, member_id)
    THEN [db |-> d, ok |-> FALSE]      \* IntegrityError, rolled back
    ELSE [db |-> [sessions |-> touch_session(d.sessions, session_id, t),
                  members |->
                      Append(d.members, new_member_row(session_id, member_id, is_observer, t))],
          ok |-> TRUE]

\* SET column = value, ... on one row
set_columns(row, changes) ==
    [f \in DOMAIN row |-> IF f \in DOMAIN changes THEN changes[f] ELSE row[f]]

\* UPDATE members SET ... WHERE session_id = ? AND member_id = ?
update_member_row(tbl, session_id, member_id, changes) ==
    [i \in 1..Len(tbl) |->
        IF tbl[i].session_id = session_id /\ tbl[i].member_id = member_id
        THEN set_columns(tbl[i], changes)
        ELSE tbl[i]]

\* UPDATE members SET ... WHERE session_id = ?
update_all_member_rows(tbl, session_id, changes) ==
    [i \in 1..Len(tbl) |->
        IF tbl[i].session_id = session_id THEN set_columns(tbl[i], changes) ELSE tbl[i]]

update_member_items(d, session_id, member_id, items, t) ==
    [sessions |-> touch_session(d.sessions, session_id, t),
     members |-> update_member_row(d.members, session_id, member_id,
                                   [items |-> items, last_seen |-> t])]

set_member_ready(d, session_id, member_id, is_ready, t) ==
    [sessions |-> touch_session(d.sessions, session_id, t),
     members |-> update_member_row(d.members, session_id, member_id,
                                   [is_ready |-> is_ready, last_seen |-> t])]

update_member_accepted_items(d, session_id, member_id, accepted_items, t) ==
    [sessions |-> touch_session(d.sessions, session_id, t),
     members |-> update_member_row(d.members, session_id, member_id,
                                   [accepted_items |-> accepted_items, last_seen |-> t])]

update_member_last_seen(d, session_id, member_id, t) ==
    [d EXCEPT !.members = update_member_row(d.members, session_id, member_id,
                                            [last_seen |-> t])]

reset_all_ready_status(d, session_id) ==
    [d EXCEPT !.members = update_all_member_rows(d.members, session_id,
                                                 [is_ready |-> FALSE])]

reset_all_accepted_items(d, session_id) ==
    [d EXCEPT !.members = update_all_member_rows(d.members, session_id,
                                                 [accepted_items |-> <<>>])]

clear_all_items(d, session_id) ==
    [d EXCEPT !.members = update_all_member_rows(d.members, session_id,
                                                 [items |-> <<>>])]

promote_observers(d, session_id) ==
    [d EXCEPT !.members = update_all_member_rows(d.members, session_id,
                                                 [is_observer |-> FALSE])]

get_excluded_items(d, session_id) ==
    IF session_exists(d, session_id) THEN d.sessions[session_id].excluded_items ELSE <<>>

set_excluded_items(d, session_id, excluded_items) ==
    [d EXCEPT !.sessions =
        [s \in DOMAIN d.sessions |->
            IF s = session_id
            THEN [d.sessions[s] EXCEPT !.excluded_items = excluded_items]
            ELSE d.sessions[s]]]

clear_excluded_items(d, session_id) == set_excluded_items(d, session_id, <<>>)

get_restart_votes(d, session_id) ==
    IF session_exists(d, session_id) THEN d.sessions[session_id].restart_votes ELSE <<>>

in_list(x, list) == \E i \in 1..Len(list) : list[i] = x

add_restart_vote(d, session_id, member_id) ==
    LET votes == get_restart_votes(d, session_id)
    IN  IF in_list(member_id, votes)
        THEN d
        ELSE [d EXCEPT !.sessions =
                [s \in DOMAIN d.sessions |->
                    IF s = session_id
                    THEN [d.sessions[s] EXCEPT !.restart_votes = Append(votes, member_id)]
                    ELSE d.sessions[s]]]

clear_restart_votes(d, session_id) ==
    [d EXCEPT !.sessions =
        [s \in DOMAIN d.sessions |->
            IF s = session_id
            THEN [d.sessions[s] EXCEPT !.restart_votes = <<>>]
            ELSE d.sessions[s]]]

-----------------------------------------------------------------------------
(* session.py: the operations.  Each takes the store d (and the time t of  *)
(* the call) and returns [db |-> the store afterwards, out |-> the value   *)
(* returned to the caller].                                                *)

Fail(d, error) == [db |-> d, out |-> [success |-> FALSE, error |-> error]]

create_session(d, session_code, creator_id, t) ==
    LET r == db_create_session(d, session_code, creator_id, t)
    IN  [db |-> r.db, out |-> IF r.ok THEN session_code ELSE None]

\* join_session making observers only of those who join in RESULT
join_session_late_only(d, session_code, member_id, t) ==
    IF ~session_exists(d, session_code)
    THEN Fail(d, "Session not found")
    ELSE LET session == get_session(d, session_code)
         IN  IF has_member(d, session_code, member_id)
             THEN [db |-> update_member_last_seen(d, session_code, member_id, t),
                   out |-> [success |-> TRUE, rejoined |-> TRUE,
                            is_observer |->
                                get_member(d, session_code, member_id).is_observer,
                            phase |-> session.phase]]
             ELSE LET is_observer == session.phase = PHASE_RESULT
                      r == add_member(d, session_code, member_id, is_observer, t)
                  IN  IF r.ok
                      THEN [db |-> r.db,
                            out |-> [success |-> TRUE, rejoined |-> FALSE,
                                     is_observer |-> is_observer,
                                     phase |-> session.phase]]
                      ELSE Fail(r.db, "Could not join session")

\* join_session withdrawing the readiness of a member who rejoins
join_session_unready(d, session_code, member_id, t) ==
    IF ~session_exists(d, session_code)
    THEN Fail(d, "Session not found")
    ELSE LET session == get_session(d, session_code)
         IN  IF has_member(d, session_code, member_id)
             THEN [db |-> set_member_ready(d, session_code, member_id, FALSE, t),
                   out |-> [success |-> TRUE, rejoined |-> TRUE,
                            is_observer |->
                                get_member(d, session_code, member_id).is_observer,
                            phase |-> session.phase]]
             ELSE LET is_observer == session.phase # PHASE_ADDING
                      r == add_member(d, session_code, member_id, is_observer, t)
                  IN  IF r.ok
                      THEN [db |-> r.db,
                            out |-> [success |-> TRUE, rejoined |-> FALSE,
                                     is_observer |-> is_observer,
                                     phase |-> session.phase]]
                      ELSE Fail(r.db, "Could not join session")

join_session(d, session_code, member_id, t) ==
    IF ~session_exists(d, session_code)
    THEN Fail(d, "Session not found")
    ELSE LET session == get_session(d, session_code)
         IN  IF has_member(d, session_code, member_id)
             THEN [db |-> update_member_last_seen(d, session_code, member_id, t),
                   out |-> [success |-> TRUE, rejoined |-> TRUE,
                            is_observer |->
                                get_member(d, session_code, member_id).is_observer,
                            phase |-> session.phase]]
             ELSE LET is_observer == session.phase # PHASE_ADDING
                      r == add_member(d, session_code, member_id, is_observer, t)
                  IN  IF r.ok
                      THEN [db |-> r.db,
                            out |-> [success |-> TRUE, rejoined |-> FALSE,
                                     is_observer |-> is_observer,
                                     phase |-> session.phase]]
                      ELSE Fail(r.db, "Could not join session")

\* add_item without the observer check
add_item_by_anyone(d, session_id, member_id, text, t) ==
    LET item == strip(text)
    IN  IF item = <<>>
        THEN Fail(d, "Item cannot be empty")
        ELSE IF ~has_member(d, session_id, member_id)
        THEN Fail(d, "Member not found")
        ELSE LET member == get_member(d, session_id, member_id)
             IN  IF member.is_ready
                 THEN Fail(d, "Cannot add items after marking ready")
                 ELSE IF is_duplicate_item(item, member.items)
                 THEN Fail(d, "Duplicate item")
                 ELSE LET items == Append(member.items, item)
                      IN  [db |-> update_member_items(d, session_id, member_id, items, t),
                           out |-> [success |-> TRUE, items |-> items]]

add_item(d, session_id, member_id, text, t) ==
    LET item == strip(text)
    IN  IF item = <<>>
        THEN Fail(d, "Item cannot be empty")
        ELSE IF ~has_member(d, session_id, member_id)
        THEN Fail(d, "Member not found")
        ELSE LET member == get_member(d, session_id, member_id)
             IN  IF member.is_observer
                 THEN Fail(d, "Observers cannot add items")
                 ELSE IF member.is_ready
                 THEN Fail(d, "Cannot add items after marking ready")
                 ELSE IF is_duplicate_item(item, member.items)
                 THEN Fail(d, "Duplicate item")
                 ELSE LET items == Append(member.items, item)
                      IN  [db |-> update_member_items(d, session_id, member_id, items, t),
                           out |-> [success |-> TRUE, items |-> items]]

\* list.pop(i) on a copy, i a 0-based index inside the list
pop(list, i) == SubSeq(list, 1, i) \o SubSeq(list, i + 2, Len(list))

\* remove_item without the readiness check
remove_item_when_ready(d, session_id, member_id, item_index, t) ==
    IF ~has_member(d, session_id, member_id)
    THEN Fail(d, "Member not found")
    ELSE LET member == get_member(d, session_id, member_id)
         IN  IF item_index < 0 \/ item_index >= Len(member.items)
             THEN Fail(d, "Invalid item index")
             ELSE LET items == pop(member.items, item_index)
                  IN  [db |-> update_member_items(d, session_id, member_id, items, t),
                       out |-> [success |-> TRUE, items |-> items]]

remove_item(d, session_id, member_id, item_index, t) ==
    IF ~has_member(d, session_id, member_id)
    THEN Fail(d, "Member not found")
    ELSE LET member == get_member(d, session_id, member_id)
         IN  IF member.is_ready
             THEN Fail(d, "Cannot remove items after marking ready")
             ELSE IF item_index < 0 \/ item_index >= Len(member.items)
             THEN Fail(d, "Invalid item index")
             ELSE LET items == pop(member.items, item_index)
                  IN  [db |-> update_member_items(d, session_id, member_id, items, t),
                       out |-> [success |-> TRUE, items |-> items]]

\* set_ready recording the call of an observer before refusing it
set_ready_seen(d, session_id, member_id, is_ready, t) ==
    IF ~has_member(d, session_id, member_id)
    THEN Fail(d, "Member not found")
    ELSE IF get_member(d, session_id, member_id).is_observer
    THEN Fail(update_member_last_seen(d, session_id, member_id, t),
              "Observers cannot set ready status")
    ELSE [db |-> set_member_ready(d, session_id, member_id, is_ready, t),
          out |-> [success |-> TRUE]]

set_ready(d, session_id, member_id, is_ready, t) ==
    IF ~has_member(d, session_id, member_id)
    THEN Fail(d, "Member not found")
    ELSE IF get_member(d, session_id, member_id).is_observer
    THEN Fail(d, "Observers cannot set ready status")
    ELSE [db |-> set_member_ready(d, session_id, member_id, is_ready, t),
          out |-> [success |-> TRUE]]

\* the loop of get_ready_status promoting a member already at the timeout
RECURSIVE ready_loop_at_timeout(_, _, _, _, _, _)
ready_loop_at_timeout(d, session_id, active, i, ready_count, t) ==
    IF i > Len(active)
    THEN [db |-> d, ready_count |-> ready_count]
    ELSE IF active[i].is_ready
    THEN ready_loop_at_timeout(d, session_id, active, i + 1, ready_count + 1, t)
    ELSE IF t - active[i].last_seen >= AUTO_READY_TIMEOUT
    THEN ready_loop_at_timeout(set_member_ready(d, session_id, active[i].member_id, TRUE, t),
                               session_id, active, i + 1, ready_count + 1, t)
    ELSE ready_loop_at_timeout(d, session_id, active, i + 1, ready_count, t)

\* the loop of get_ready_status counting the ready members only
RECURSIVE ready_loop_no_promotion(_, _, _, _, _, _)
ready_loop_no_promotion(d, session_id, active, i, ready_count, t) ==
    IF i > Len(active)
    THEN [db |-> d, ready_count |-> ready_count]
    ELSE ready_loop_no_promotion(d, session_id, active, i + 1,
                                 IF active[i].is_ready THEN ready_count + 1
                                 ELSE ready_count, t)

\* the for loop of get_ready_status over the list read at its start
RECURSIVE ready_loop(_, _, _, _, _, _)
ready_loop(d, session_id, active, i, ready_count, t) ==
    IF i > Len(active)
    THEN [db |-> d, ready_count |-> ready_count]
    ELSE IF active[i].is_ready
    THEN ready_loop(d, session_id, active, i + 1, ready_count + 1, t)
    ELSE IF t - active[i].last_seen > AUTO_READY_TIMEOUT
    THEN ready_loop(set_member_ready(d, session_id, active[i].member_id, TRUE, t),
                    session_id, active, i + 1, ready_count + 1, t)
    ELSE ready_loop(d, session_id, active, i + 1, ready_count, t)

\* get_ready_status declaring the barrier passed once anybody is ready
get_ready_status_any(d, session_id, t) ==
    LET active == get_active_members(d, session_id)
        total_count == Len(active)
        r == ready_loop(d, session_id, active, 1, 0, t)
    IN  [db |-> r.db,
         out |-> [ready |-> r.ready_count,
                  total |-> total_count,
                  all_ready |-> r.ready_count > 0]]

get_ready_status(d, session_id, t) ==
    LET active == get_active_members(d, session_id)
        total_count == Len(active)
        r == ready_loop(d, session_id, active, 1, 0, t)
    IN  [db |-> r.db,
         out |-> [ready |-> r.ready_count,
                  total |-> total_count,
                  all_ready |-> r.ready_count = total_count /\ total_count > 0]]

\* check_and_advance_phase forgetting to reset the readiness flags
check_and_advance_phase_no_reset(d, session_id, t) ==
    IF ~session_exists(d, session_id)
    THEN [db |-> d, out |-> None]
    ELSE LET session == get_session(d, session_id)
             status == get_ready_status(d, session_id, t)
             current_phase == session.phase
         IN  IF ~status.out.all_ready
             THEN [db |-> status.db, out |-> None]
             ELSE IF current_phase = PHASE_ADDING
             THEN [db |-> set_session_phase(status.db, session_id, PHASE_ACCEPTING, t),
                   out |-> PHASE_ACCEPTING]
             ELSE IF current_phase = PHASE_ACCEPTING
             THEN [db |-> set_session_phase(status.db, session_id, PHASE_RESULT, t),
                   out |-> PHASE_RESULT]
             ELSE [db |-> status.db, out |-> None]

\* check_and_advance_phase going from ADDING straight to RESULT
check_and_advance_phase_skip(d, session_id, t) ==
    IF ~session_exists(d, session_id)
    THEN [db |-> d, out |-> None]
    ELSE LET session == get_session(d, session_id)
             status == get_ready_status(d, session_id, t)
             current_phase == session.phase
         IN  IF ~status.out.all_ready
             THEN [db |-> status.db, out |-> None]
             ELSE IF current_phase = PHASE_ADDING
             THEN [db |-> set_session_phase(reset_all_ready_status(status.db, session_id),
                                            session_id, PHASE_RESULT, t),
                   out |-> PHASE_RESULT]
             ELSE IF current_phase = PHASE_ACCEPTING
             THEN [db |-> set_session_phase(status.db, session_id, PHASE_RESULT, t),
                   out |-> PHASE_RESULT]
             ELSE [db |-> status.db, out |-> None]

\* check_and_advance_phase starting the next round from RESULT
check_and_advance_phase_wrap(d, session_id, t) ==
    IF ~session_exists(d, session_id)
    THEN [db |-> d, out |-> None]
    ELSE LET session == get_session(d, session_id)
             status == get_ready_status(d, session_id, t)
             current_phase == session.phase
         IN  IF ~status.out.all_ready
             THEN [db |-> status.db, out |-> None]
             ELSE IF current_phase = PHASE_ADDING
             THEN [db |-> set_session_phase(reset_all_ready_status(status.db, session_id),
                                            session_id, PHASE_ACCEPTING, t),
                   out |-> PHASE_ACCEPTING]
             ELSE IF current_phase = PHASE_ACCEPTING
             THEN [db |-> set_session_phase(status.db, session_id, PHASE_RESULT, t),
                   out |-> PHASE_RESULT]
             ELSE [db |-> set_session_phase(status.db, session_id, PHASE_ADDING, t),
                   out |-> PHASE_ADDING]

check_and_advance_phase(d, session_id, t) ==
    IF ~session_exists(d, session_id)
    THEN [db |-> d, out |-> None]
    ELSE LET session == get_session(d, session_id)
             status == get_ready_status(d, session_id, t)
             current_phase == session.phase
         IN  IF ~status.out.all_ready
             THEN [db |-> status.db, out |-> None]
             ELSE IF current_phase = PHASE_ADDING
             THEN [db |-> set_session_phase(reset_all_ready_status(status.db, session_id),
                                            session_id, PHASE_ACCEPTING, t),
                   out |-> PHASE_ACCEPTING]
             ELSE IF current_phase = PHASE_ACCEPTING
             THEN [db |-> set_session_phase(status.db, session_id, PHASE_RESULT, t),
                   out |-> PHASE_RESULT]
             ELSE [db |-> status.db, out |-> None]

set_accepted_items(d, session_id, member_id, accepted_items, t) ==
    IF ~has_member(d, session_id, member_id)
    THEN Fail(d, "Member not found")
    ELSE IF get_member(d, session_id, member_id).is_observer
    THEN Fail(d, "Observers cannot accept items")
    ELSE [db |-> update_member_accepted_items(d, session_id, member_id, accepted_items, t),
          out |-> [success |-> TRUE]]

\* vote_restart settling for the votes of more than half of the active members
vote_restart_majority(d, session_id, member_id) ==
    LET d1 == add_restart_vote(d, session_id, member_id)
        votes == get_restart_votes(d1, session_id)
        active == get_active_members(d1, session_id)
        voted == { i \in 1..Len(active) : in_list(active[i].member_id, votes) }
    IN  [db |-> d1,
         out |-> [votes |-> Len(votes), total |-> Len(active),
                  all_voted |-> 2 * Cardinality(voted) > Len(active)]]

vote_restart(d, session_id, member_id) ==
    LET d1 == add_restart_vote(d, session_id, member_id)
        votes == get_restart_votes(d1, session_id)
        active == get_active_members(d1, session_id)
        all_voted == \A i \in 1..Len(active) : in_list(active[i].member_id, votes)
    IN  [db |-> d1,
         out |-> [votes |-> Len(votes), total |-> Len(active), all_voted |-> all_voted]]

\* start_fresh without the promotion of observers
start_fresh_no_promotion(d, session_id, t) ==
    LET d1 == clear_all_items(d, session_id)
        d2 == reset_all_ready_status(d1, session_id)
        d3 == reset_all_accepted_items(d2, session_id)
        d4 == clear_excluded_items(d3, session_id)
        d5 == clear_restart_votes(d4, session_id)
    IN  [db |-> set_session_phase(d5, session_id, PHASE_ADDING, t), out |-> None]

\* start_fresh keeping the excluded items
start_fresh_keep_excluded(d, session_id, t) ==
    LET d1 == clear_all_items(d, session_id)
        d2 == reset_all_ready_status(d1, session_id)
        d3 == reset_all_accepted_items(d2, session_id)
        d5 == clear_restart_votes(d3, session_id)
        d6 == promote_observers(d5, session_id)
    IN  [db |-> set_session_phase(d6, session_id, PHASE_ADDING, t), out |-> None]

start_fresh(d, session_id, t) ==
    LET d1 == clear_all_items(d, session_id)
        d2 == reset_all_ready_status(d1, session_id)
        d3 == reset_all_accepted_items(d2, session_id)
        d4 == clear_excluded_items(d3, session_id)
        d5 == clear_restart_votes(d4, session_id)
        d6 == promote_observers(d5, session_id)
    IN  [db |-> set_session_phase(d6, session_id, PHASE_ADDING, t), out |-> None]

\* leave_session deleting the row of the member
leave_session_deleting(d, session_id, member_id) ==
    [db |-> [d EXCEPT !.members =
                SelectSeq(d.members,
                          LAMBDA r : ~(r.session_id = session_id /\ r.member_id = member_id))],
     out |-> None]

leave_session(d, session_id, member_id) == [db |-> d, out |-> None]

-----------------------------------------------------------------------------
(* session.py: acceptance checklist, grouping and selection *)

any_items_equal(item, list) == \E i \in 1..Len(list) : items_equal(item, list[i])

\* the inner loop of get_items_for_acceptance and get_all_items
RECURSIVE collect_items(_, _)
collect_items(items, member_items) ==
    IF member_items = <<>>
    THEN items
    ELSE collect_items(IF any_items_equal(Head(member_items), items)
                       THEN items
                       ELSE Append(items, Head(member_items)),
                       Tail(member_items))

RECURSIVE collect_members(_, _, _)
collect_members(items, active, skip_id) ==
    IF active = <<>>
    THEN items
    ELSE collect_members(IF Head(active).member_id # skip_id
                         THEN collect_items(items, Head(active).items)
                         ELSE items,
                         Tail(active), skip_id)

get_items_for_acceptance(d, session_id, member_id) ==
    collect_members(<<>>, get_active_members(d, session_id), member_id)

get_all_items(d, session_id) ==
    collect_members(<<>>, get_active_members(d, session_id), None)

\* random.randint(lo, hi), decided by the draw k: a value of lo..hi
randint(lo, hi, k) == lo + (k % (hi - lo + 1))

\* fair_random_select drawing above the lower end of the range
fair_random_select_above(length, k) ==
    IF length <= 0
    THEN 0
    ELSE randint(length * 10000 + 1, length * 90000, k) % length

fair_random_select(length, k) ==
    IF length <= 0
    THEN 0
    ELSE randint(length * 10000, length * 90000, k) % length

\* normalized_to_original and item_acceptances as one list, in the insertion
\* order of normalized_to_original: [norm, original, acceptors]
has_norm(table, norm) == \E i \in 1..Len(table) : table[i].norm = norm

add_acceptor(table, norm, member_id) ==
    [i \in 1..Len(table) |->
        IF table[i].norm = norm
        THEN [table[i] EXCEPT !.acceptors = @ \cup {member_id}]
        ELSE table[i]]

\* for item in member["items"]
RECURSIVE own_items_loop(_, _, _)
own_items_loop(table, member_id, items) ==
    IF items = <<>>
    THEN table
    ELSE LET norm == normalize_item(Head(items))
             t1 == IF has_norm(table, norm)
                   THEN table
                   ELSE Append(table, [norm |-> norm, original |-> Head(items),
                                       acceptors |-> {}])
         IN  own_items_loop(add_acceptor(t1, norm, member_id), member_id, Tail(items))

\* for item in member["accepted_items"]
RECURSIVE accepted_items_loop(_, _, _)
accepted_items_loop(table, member_id, accepted) ==
    IF accepted = <<>>
    THEN table
    ELSE LET norm == normalize_item(Head(accepted))
         IN  accepted_items_loop(IF has_norm(table, norm)
                                 THEN add_acceptor(table, norm, member_id)
                                 ELSE table,
                                 member_id, Tail(accepted))

\* for member in members
RECURSIVE acceptance_loop(_, _)
acceptance_loop(table, active) ==
    IF active = <<>>
    THEN table
    ELSE LET m == Head(active)
             t1 == own_items_loop(table, m.member_id, m.items)
             t2 == accepted_items_loop(t1, m.member_id, m.accepted_items)
         IN  acceptance_loop(t2, Tail(active))

\* groups[acceptors].append(original): the dict as a list of
\* [acceptors, items] in insertion order
RECURSIVE group_loop(_, _, _)
group_loop(groups, table, excluded) ==
    IF table = <<>>
    THEN groups
    ELSE LET e == Head(table)
             g1 == IF any_items_equal(e.original, excluded) \/ e.acceptors = {}
                   THEN groups
                   ELSE IF \E i \in 1..Len(groups) : groups[i].acceptors = e.acceptors
                   THEN [i \in 1..Len(groups) |->
                            IF groups[i].acceptors = e.acceptors
                            THEN [groups[i] EXCEPT !.items = Append(@, e.original)]
                            ELSE groups[i]]
                   ELSE Append(groups, [acceptors |-> e.acceptors,
                                        items |-> <<e.original>>])
         IN  group_loop(g1, Tail(table), excluded)

\* group_items_by_acceptance not looking at the excluded items
group_items_by_acceptance_all(d, session_id) ==
    group_loop(<<>>,
               acceptance_loop(<<>>, get_active_members(d, session_id)),
               <<>>)

group_items_by_acceptance(d, session_id) ==
    group_loop(<<>>,
               acceptance_loop(<<>>, get_active_members(d, session_id)),
               get_excluded_items(d, session_id))

\* select_item that never recycles the pool
select_item_no_recycling(d, session_id, k1, k2) ==
    LET groups == group_items_by_acceptance(d, session_id)
    IN  IF groups = <<>>
        THEN [db |-> d, out |-> None]
        ELSE LET selected_group == groups[fair_random_select(Len(groups), k1) + 1].items
             IN  [db |-> d,
                  out |-> selected_group[fair_random_select(Len(selected_group), k2) + 1]]

\* k1, k2: the two random draws
select_item(d, session_id, k1, k2) ==
    LET groups0 == group_items_by_acceptance(d, session_id)
        d1 == IF groups0 = <<>> THEN clear_excluded_items(d, session_id) ELSE d
        groups == IF groups0 = <<>> THEN group_items_by_acceptance(d1, session_id)
                  ELSE groups0
    IN  IF groups = <<>>
        THEN [db |-> d1, out |-> None]
        ELSE LET selected_group == groups[fair_random_select(Len(groups), k1) + 1].items
             IN  [db |-> d1,
                  out |-> selected_group[fair_random_select(Len(selected_group), k2) + 1]]

\* reroll drawing from the whole pool again
reroll_from_all(d, session_id, k1, k2) ==
    select_item(clear_excluded_items(d, session_id), session_id, k1, k2)

reroll(d, session_id, k1, k2) == select_item(d, session_id, k1, k2)

\* roll_next that does not exclude the current item
roll_next_keeps_current(d, session_id, current_item, k1, k2) ==
    select_item(d, session_id, k1, k2)

roll_next(d, session_id, current_item, k1, k2) ==
    LET excluded == get_excluded_items(d, session_id)
        d1 == IF ~any_items_equal(current_item, excluded)
              THEN set_excluded_items(d, session_id, Append(excluded, current_item))
              ELSE d
    IN  select_item(d1, session_id, k1, k2)

is_creator(d, session_id, member_id) == get_session_creator(d, session_id) = member_id

is_creator_connected(d, session_id, t) ==
    IF ~session_exists(d, session_id)
    THEN FALSE
    ELSE LET session == get_session(d, session_id)
         IN  IF ~has_member(d, session_id, session.creator_id)
             THEN FALSE
             ELSE t - get_member(d, session_id, session.creator_id).last_seen < 30

get_session_state(d, session_id, member_id, t) ==
    IF ~session_exists(d, session_id)
    THEN [db |-> d, out |-> [error |-> "Session not found"]]
    ELSE IF ~has_member(d, session_id, member_id)
    THEN [db |-> d, out |-> [error |-> "Member not found"]]
    ELSE LET session == get_session(d, session_id)
             member == get_member(d, session_id, member_id)
             ready_status == get_ready_status(d, session_id, t)
             d1 == ready_status.db
         IN  [db |-> d1,
              out |-> [session_id |-> session_id,
                       phase |-> session.phase,
                       is_creator |-> is_creator(d1, session_id, member_id),
                       creator_connected |-> is_creator_connected(d1, session_id, t),
                       is_observer |-> member.is_observer,
                       my_items |-> member.items,
                       my_accepted_items |-> member.accepted_items,
                       is_ready |-> member.is_ready,
                       ready_count |-> ready_status.out.ready,
                       total_members |-> ready_status.out.total,
                       all_ready |-> ready_status.out.all_ready,
                       restart_votes |-> Len(get_restart_votes(d1, session_id)),
                       all_items |-> IF session.phase = PHASE_RESULT
                                     THEN get_all_items(d1, session_id)
                                     ELSE <<>>]]

-----------------------------------------------------------------------------
(* main.py: the handlers of a page, each with the refresh it ends with. A  *)
(* page acts for one member; has_result says whether the page holds a      *)
(* selected_result when it shows the result.                               *)

\* the value of a statement sequence: each { e : x \in {v} } below is one
\* assignment x = v followed by e
the(S) == CHOOSE x \in S : TRUE

\* show_session, and show_result_phase drawing a result when the page has
\* none: the draw decides the page's selected_result, not the store
show_session(d, session_id, member_id, t, has_result) ==
    the({ IF "error" \in DOMAIN state.out
          THEN state
          ELSE the({ [db |-> IF /\ ~state.out.is_observer
                                /\ state.out.phase = PHASE_RESULT
                                /\ ~has_result
                             THEN select_item(d1, session_id, 0, 0).db
                             ELSE d1,
                      out |-> state.out]
                     : d1 \in {update_member_last_seen(state.db, session_id,
                                                       member_id, t)} })
          : state \in {get_session_state(d, session_id, member_id, t)} })

\* show_landing: create_session
page_create_session(d, session_code, member_id, t) ==
    the({ IF r.out = None
          THEN r
          ELSE [db |-> show_session(r.db, session_code, member_id, t, TRUE).db,
                out |-> r.out]
          : r \in {create_session(d, session_code, member_id, t)} })

\* show_landing: join_session, and check_existing_session
page_join_session(d, session_code, member_id, t, has_result) ==
    the({ IF r.out.success
          THEN [db |-> show_session(r.db, session_code, member_id, t, has_result).db,
                out |-> r.out]
          ELSE r
          : r \in {join_session(d, session_code, member_id, t)} })

\* show_adding_phase: add_item
page_add_item(d, session_id, member_id, text, t) ==
    IF strip(text) = <<>>
    THEN [db |-> d, out |-> None]
    ELSE add_item(d, session_id, member_id, text, t)

\* show_adding_phase: toggle_ready
toggle_ready_adding(d, session_id, member_id, new_ready, t, has_result) ==
    the({ IF ~result.out.success
          THEN [db |-> result.db, out |-> [success |-> FALSE, new_phase |-> None]]
          ELSE the({ [db |-> show_session(advanced.db, session_id, member_id, t,
                                          has_result).db,
                      out |-> [success |-> TRUE, new_phase |-> advanced.out]]
                     : advanced \in {check_and_advance_phase(result.db, session_id, t)} })
          : result \in {set_ready(d, session_id, member_id, new_ready, t)} })

\* show_accepting_phase: toggle_ready; the result drawn is broadcast
toggle_ready_accepting(d, session_id, member_id, new_ready, t, has_result) ==
    the({ IF ~result.out.success
          THEN [db |-> result.db, out |-> [success |-> FALSE, new_phase |-> None]]
          ELSE the({ the({ [db |-> show_session(d1, session_id, member_id, t,
                                                has_result).db,
                            out |-> [success |-> TRUE, new_phase |-> advanced.out]]
                           : d1 \in {IF advanced.out # None
                                     THEN select_item(advanced.db, session_id, 0, 0).db
                                     ELSE advanced.db} })
                     : advanced \in {check_and_advance_phase(result.db, session_id, t)} })
          : result \in {set_ready(d, session_id, member_id, new_ready, t)} })

\* show_accepting_phase: save_accepted_items
save_accepted_items(d, session_id, member_id, accepted_items, t) ==
    set_accepted_items(d, session_id, member_id, accepted_items, t)

\* the result of select_item is None: its second grouping is empty
none_selected(d, session_id) == group_items_by_acceptance(d, session_id) = <<>>

\* show_result_phase: do_reroll
do_reroll(d, session_id, member_id, t, k1, k2) ==
    the({ [db |-> show_session(r.db, session_id, member_id, t,
                               ~none_selected(r.db, session_id)).db,
           out |-> r.out]
          : r \in {reroll(d, session_id, k1, k2)} })

\* show_result_phase: do_roll_next, of a page that holds a selected_result
do_roll_next(d, session_id, member_id, selected_result, t, k1, k2) ==
    the({ [db |-> show_session(r.db, session_id, member_id, t,
                               ~none_selected(r.db, session_id)).db,
           out |-> r.out]
          : r \in {roll_next(d, session_id, selected_result, k1, k2)} })

\* do_start_fresh resetting the session at the first vote
do_start_fresh_at_once(d, session_id, member_id, t, has_result) ==
    the({ the({ [db |-> show_session(d1, session_id, member_id, t, FALSE).db,
                 out |-> [votes |-> result.out.votes, total |-> result.out.total,
                          all_voted |-> result.out.all_voted, reset |-> TRUE]]
                : d1 \in {start_fresh(result.db, session_id, t).db} })
          : result \in {vote_restart(d, session_id, member_id)} })

\* show_result_phase: do_start_fresh
do_start_fresh(d, session_id, member_id, t, has_result) ==
    the({ IF result.out.all_voted
          THEN the({ [db |-> show_session(d1, session_id, member_id, t, FALSE).db,
                      out |-> [votes |-> result.out.votes, total |-> result.out.total,
                               all_voted |-> TRUE, reset |-> TRUE]]
                     : d1 \in {start_fresh(result.db, session_id, t).db} })
          ELSE [db |-> show_session(result.db, session_id, member_id, t,
                                    has_result).db,
                out |-> [votes |-> result.out.votes, total |-> result.out.total,
                         all_voted |-> FALSE, reset |-> FALSE]]
          : result \in {vote_restart(d, session_id, member_id)} })

-----------------------------------------------------------------------------
(* The state machine: one action per operation, each run atomically.       *)
(* sc is the scope the inputs are drawn from.                              *)

SeqsUpTo(S, n) == UNION { [1..k -> S] : k \in 0..n }

Draws == 0..MaxDraw

\* the pages open: two of member m1 (two tabs of one browser share the
\* member id kept in client_storage), one of m2
PageOf == [p1 |-> "m1", p2 |-> "m2", p3 |-> "m1"]
Pages == DOMAIN PageOf

\* a page that executes no call
IdleCall == [pc |-> "idle", session_id |-> None, view |-> None,
             session |-> None, votes |-> <<>>, out |-> None]

Init ==
    /\ sessions = <<>>
    /\ members = <<>>
    /\ now = 0
    /\ ret = [op |-> "init", session_id |-> None, member_id |-> None,
              arg |-> None, out |-> None]
    /\ calls = [p \in Pages |-> IdleCall]
    /\ done = [m \in MemberIds |-> {}]

Tick ==
    /\ now < MaxTicks * TickSeconds
    /\ now' = now + TickSeconds
    /\ ret' = [op |-> "tick", session_id |-> None, member_id |-> None,
               arg |-> None, out |-> None]
    /\ UNCHANGED <<sessions, members, calls, done>>

\* generate_session_code returns a code no session has
CreateSession(sc) ==
    \E code \in SessionCodes, creator_id \in sc.creators :
        /\ ~session_exists(D, code)
        /\ Returned("create_session", code, creator_id, None,
                    create_session(D, code, creator_id, now))

JoinSession(sc) ==
    \E s \in SessionCodes, m \in sc.members :
        Returned("join_session", s, m, None, join_session(D, s, m, now))

AddItem(sc) ==
    \E s \in SessionCodes, m \in sc.members, text \in sc.texts :
        LET r == add_item(D, s, m, text, now)
        IN  /\ r.out.success => Len(r.out.items) <= MaxItems
            /\ Returned("add_item", s, m, text, r)

RemoveItem(sc) ==
    \E s \in SessionCodes, m \in sc.members, item_index \in -1..MaxItems :
        Returned("remove_item", s, m, item_index, remove_item(D, s, m, item_index, now))

SetReady(sc) ==
    \E s \in SessionCodes, m \in sc.members, is_ready \in BOOLEAN :
        Returned("set_ready", s, m, is_ready, set_ready(D, s, m, is_ready, now))

GetReadyStatus ==
    \E s \in SessionCodes :
        Returned("get_ready_status", s, None, None, get_ready_status(D, s, now))

CheckAndAdvancePhase ==
    \E s \in SessionCodes :
        Returned("check_and_advance_phase", s, None, None,
                 check_and_advance_phase(D, s, now))

SetAcceptedItems(sc) ==
    \E s \in SessionCodes, m \in sc.members,
       accepted_items \in SeqsUpTo(sc.texts, MaxAccepted) :
        Returned("set_accepted_items", s, m, accepted_items,
                 set_accepted_items(D, s, m, accepted_items, now))

SelectItem ==
    \E s \in SessionCodes, k1 \in Draws, k2 \in Draws :
        Returned("select_item", s, None, None, select_item(D, s, k1, k2))

Reroll ==
    \E s \in SessionCodes, k1 \in Draws, k2 \in Draws :
        Returned("reroll", s, None, None, reroll(D, s, k1, k2))

RollNext(sc) ==
    \E s \in SessionCodes, current_item \in sc.texts, k1 \in Draws, k2 \in Draws :
        LET r == roll_next(D, s, current_item, k1, k2)
        IN  /\ Len(get_excluded_items(r.db, s)) <= MaxExcluded
            /\ Returned("roll_next", s, None, current_item, r)

VoteRestart(sc) ==
    \E s \in SessionCodes, m \in sc.members :
        Returned("vote_restart", s, m, None, vote_restart(D, s, m))

StartFresh ==
    \E s \in SessionCodes :
        Returned("start_fresh", s, None, None, start_fresh(D, s, now))

LeaveSession(sc) ==
    \E s \in SessionCodes, m \in sc.members :
        Returned("leave_session", s, m, None, leave_session(D, s, m))

GetSessionState(sc) ==
    \E s \in SessionCodes, m \in sc.members :
        Returned("get_session_state", s, m, None, get_session_state(D, s, m, now))

\* the grouping that select_item starts with
GroupItemsByAcceptance ==
    \E s \in SessionCodes :
        Returned("group_items_by_acceptance", s, None, None,
                 [db |-> D, out |-> group_items_by_acceptance(D, s)])

\* the draws of random.randint(length * 10000, length * 90000) taken: the
\* lowest and the highest values of the range
RandDraws(length) ==
    IF length <= 0
    THEN {0}
    ELSE LET span == length * 90000 - length * 10000
         IN  (0..MaxRandDraw) \cup ((span - MaxRandDraw)..span)

FairRandomSelect ==
    \E length \in -1..MaxLength :
        \E k \in RandDraws(length) :
            /\ ret' = [op |-> "fair_random_select", session_id |-> None,
                       member_id |-> None,
                       arg |-> [length |-> length,
                                rnd |-> IF length <= 0 THEN None
                                        ELSE randint(length * 10000, length * 90000, k)],
                       out |-> fair_random_select(length, k)]
            /\ UNCHANGED <<sessions, members, now, calls, done>>

\* the strings over the alphabet of up to n characters
Strings(n) == UNION { [1..k -> Alphabet] : k \in 0..n }

NormalizeItem ==
    \E item \in Strings(MaxTextLen) :
        /\ ret' = [op |-> "normalize_item", session_id |-> None, member_id |-> None,
                   arg |-> item, out |-> normalize_item(item)]
        /\ UNCHANGED <<sessions, members, now, calls, done>>

ItemsEqual ==
    \E item1 \in Strings(MaxPairLen), item2 \in Strings(MaxPairLen) :
        /\ ret' = [op |-> "items_equal", session_id |-> None, member_id |-> None,
                   arg |-> [item1 |-> item1, item2 |-> item2],
                   out |-> items_equal(item1, item2)]
        /\ UNCHANGED <<sessions, members, now, calls, done>>

\* show_accepting_phase: the checklist of a member
GetItemsForAcceptance(sc) ==
    \E s \in SessionCodes, m \in sc.members :
        Returned("get_items_for_acceptance", s, m, None,
                 [db |-> D, out |-> get_items_for_acceptance(D, s, m)])

\* main.py show_session: the heartbeat after every refresh
UpdateMemberLastSeen(sc) ==
    \E s \in SessionCodes, m \in sc.members :
        Returned("update_member_last_seen", s, m, None,
                 [db |-> update_member_last_seen(D, s, m, now), out |-> None])

-----------------------------------------------------------------------------
(* The pages of the application. A handler is enabled when the view that   *)
(* offers it is the view of the stored state: show_session decides the     *)
(* view from is_observer and the phase, and every change is broadcast to   *)
(* the pages of the session, which show the session again.                 *)

Member(s, m) == get_member(D, s, m)

AddingView(s, m) ==
    /\ session_exists(D, s) /\ has_member(D, s, m)
    /\ ~Member(s, m).is_observer /\ get_session(D, s).phase = PHASE_ADDING

AcceptingView(s, m) ==
    /\ session_exists(D, s) /\ has_member(D, s, m)
    /\ ~Member(s, m).is_observer /\ get_session(D, s).phase = PHASE_ACCEPTING

ResultView(s, m) ==
    /\ session_exists(D, s) /\ has_member(D, s, m)
    /\ ~Member(s, m).is_observer /\ get_session(D, s).phase = PHASE_RESULT

\* show_result_phase: creator_controls
CreatorControls(s, m) ==
    /\ ResultView(s, m)
    /\ is_creator(D, s, m) /\ is_creator_connected(D, s, now)

PageCreateSession(sc) ==
    \E code \in SessionCodes, m \in sc.creators :
        /\ ~session_exists(D, code)
        /\ Returned("page_create_session", code, m, None,
                    page_create_session(D, code, m, now))

PageJoinSession(sc) ==
    \E s \in SessionCodes, m \in sc.members, has_result \in BOOLEAN :
        Returned("page_join_session", s, m, None,
                 page_join_session(D, s, m, now, has_result))

\* a page of the session shows it again: refresh_ui on a broadcast
ShowSession(sc) ==
    \E s \in SessionCodes, m \in sc.members, has_result \in BOOLEAN :
        /\ session_exists(D, s) /\ has_member(D, s, m)
        /\ Returned("show_session", s, m, None,
                    show_session(D, s, m, now, has_result))

PageAddItem(sc) ==
    \E s \in SessionCodes, m \in sc.members, text \in sc.texts :
        /\ AddingView(s, m) /\ ~Member(s, m).is_ready
        /\ LET r == page_add_item(D, s, m, text, now)
           IN  /\ Len(get_member(r.db, s, m).items) <= MaxItems
               /\ Returned("page_add_item", s, m, text, r)

PageRemoveItem(sc) ==
    \E s \in SessionCodes, m \in sc.members :
        /\ AddingView(s, m) /\ ~Member(s, m).is_ready
        /\ \E idx \in 0..(Len(Member(s, m).items) - 1) :
               Returned("page_remove_item", s, m, idx, remove_item(D, s, m, idx, now))

ToggleReadyAdding(sc) ==
    \E s \in SessionCodes, m \in sc.members :
        /\ AddingView(s, m)
        /\ Returned("toggle_ready", s, m, ~Member(s, m).is_ready,
                    toggle_ready_adding(D, s, m, ~Member(s, m).is_ready, now, TRUE))

ToggleReadyAccepting(sc) ==
    \E s \in SessionCodes, m \in sc.members, has_result \in BOOLEAN :
        /\ AcceptingView(s, m)
        /\ Returned("toggle_ready", s, m, ~Member(s, m).is_ready,
                    toggle_ready_accepting(D, s, m, ~Member(s, m).is_ready, now,
                                           has_result))

\* the checkboxes are those of get_items_for_acceptance
SaveAcceptedItems(sc) ==
    \E s \in SessionCodes, m \in sc.members,
       accepted_items \in SeqsUpTo(sc.texts, MaxAccepted) :
        /\ AcceptingView(s, m) /\ ~Member(s, m).is_ready
        /\ \A i \in 1..Len(accepted_items) :
               /\ in_list(accepted_items[i], get_items_for_acceptance(D, s, m))
               /\ \A j \in 1..Len(accepted_items) :
                      accepted_items[i] = accepted_items[j] => i = j
        /\ Returned("save_accepted_items", s, m, accepted_items,
                    save_accepted_items(D, s, m, accepted_items, now))

DoReroll(sc) ==
    \E s \in SessionCodes, m \in sc.members, k1 \in Draws, k2 \in Draws :
        /\ CreatorControls(s, m)
        /\ Returned("do_reroll", s, m, None, do_reroll(D, s, m, now, k1, k2))

\* selected_result is an item drawn before: an item of the session
DoRollNext(sc) ==
    \E s \in SessionCodes, m \in sc.members, selected_result \in sc.texts,
       k1 \in Draws, k2 \in Draws :
        /\ CreatorControls(s, m)
        /\ in_list(selected_result, get_all_items(D, s))
        /\ LET r == do_roll_next(D, s, m, selected_result, now, k1, k2)
           IN  /\ Len(get_excluded_items(r.db, s)) <= MaxExcluded
               /\ Returned("do_roll_next", s, m, selected_result, r)

DoStartFresh(sc) ==
    \E s \in SessionCodes, m \in sc.members, has_result \in BOOLEAN :
        /\ CreatorControls(s, m)
        /\ Returned("do_start_fresh", s, m, None,
                    do_start_fresh(D, s, m, now, has_result))

-----------------------------------------------------------------------------
(* Concurrent calls.  Every function of database.py is one transaction;   *)
(* the handlers of different pages run in different threads, each with its *)
(* own connection, so the transactions of two calls interleave.  A page    *)
(* executes toggle_ready with new_ready = True (set_ready, then            *)
(* check_and_advance_phase, then the refresh), or vote_restart, one store  *)
(* call per step.  pp is the set of pages that act.  These specifications  *)
(* have no clock: no member is stale, and get_ready_status, whose store    *)
(* calls after its read promote stale members, is its read.                *)

At(p, pc) == calls[p].pc = pc

\* the call of page p goes on to pc with the locals given
Goto(p, pc, locals) ==
    calls' = [calls EXCEPT ![p] = [k \in DOMAIN IdleCall |->
                                      IF k = "pc" THEN pc
                                      ELSE IF k \in DOMAIN locals THEN locals[k]
                                      ELSE calls[p][k]]]

Store(d) == sessions' = d.sessions /\ members' = d.members

\* check_and_advance_phase or vote_restart of page p returns out
Returns(p, op, out) ==
    ret' = [op |-> op, session_id |-> calls[p].session_id, member_id |-> PageOf[p],
            arg |-> p, out |-> out]

\* toggle_ready on a page that shows the member as not ready:
\* set_ready, member = db.get_member(...)
SetReadyGetMember(pp) ==
    \E p \in pp, s \in SessionCodes :
        /\ At(p, "idle")
        /\ AddingView(s, PageOf[p]) \/ AcceptingView(s, PageOf[p])
        /\ ~Member(s, PageOf[p]).is_ready
        /\ Goto(p, "set_member_ready",
                [session_id |-> s, view |-> get_session(D, s).phase])
        /\ UNCHANGED <<sessions, members, now, ret, done>>

\* set_ready, db.set_member_ready(session_id, member_id, True)
SetMemberReady(pp) ==
    \E p \in pp :
        /\ At(p, "set_member_ready")
        /\ Store(set_member_ready(D, calls[p].session_id, PageOf[p], TRUE, now))
        /\ Goto(p, "get_session", <<>>)
        /\ UNCHANGED <<now, ret, done>>

\* check_and_advance_phase, session = db.get_session(session_id)
GetSession(pp) ==
    \E p \in pp :
        /\ At(p, "get_session")
        /\ Goto(p, "get_ready_status",
                [session |-> get_session(D, calls[p].session_id).phase])
        /\ UNCHANGED <<sessions, members, now, ret, done>>

\* check_and_advance_phase, status = get_ready_status(session_id), and the
\* branch on status and on the phase read before
GetReadyStatusOfCall(pp) ==
    \E p \in pp :
        /\ At(p, "get_ready_status")
        /\ LET status == get_ready_status(D, calls[p].session_id, now)
           IN  /\ Store(status.db)
               /\ IF status.out.all_ready /\ calls[p].session = PHASE_ADDING
                  THEN Goto(p, "reset_all_ready_status", <<>>) /\ UNCHANGED ret
                  ELSE IF status.out.all_ready /\ calls[p].session = PHASE_ACCEPTING
                  THEN Goto(p, "set_session_phase", <<>>) /\ UNCHANGED ret
                  ELSE /\ Goto(p, "refresh", [out |-> None])
                       /\ Returns(p, "check_and_advance_phase", None)
        /\ UNCHANGED <<now, done>>

\* check_and_advance_phase, db.reset_all_ready_status(session_id)
ResetAllReadyStatus(pp) ==
    \E p \in pp :
        /\ At(p, "reset_all_ready_status")
        /\ Store(reset_all_ready_status(D, calls[p].session_id))
        /\ Goto(p, "set_session_phase", <<>>)
        /\ UNCHANGED <<now, ret, done>>

\* check_and_advance_phase, db.set_session_phase(session_id, ...) and return
SetSessionPhase(pp) ==
    \E p \in pp :
        /\ At(p, "set_session_phase")
        /\ LET phase == IF calls[p].session = PHASE_ADDING
                        THEN PHASE_ACCEPTING
                        ELSE PHASE_RESULT
           IN  /\ Store(set_session_phase(D, calls[p].session_id, phase, now))
               /\ Goto(p, "refresh", [out |-> phase])
               /\ Returns(p, "check_and_advance_phase", phase)
        /\ UNCHANGED <<now, done>>

\* toggle_ready after check_and_advance_phase: select_item when the
\* accepting phase was left, and refresh_ui
Refresh(pp) ==
    \E p \in pp, has_result \in BOOLEAN :
        /\ At(p, "refresh")
        /\ LET s == calls[p].session_id
               d1 == IF calls[p].view = PHASE_ACCEPTING /\ calls[p].out # None
                     THEN select_item(D, s, 0, 0).db
                     ELSE D
           IN  Store(show_session(d1, s, PageOf[p], now, has_result).db)
        /\ calls' = [calls EXCEPT ![p] = IdleCall]
        /\ done' = [done EXCEPT ![PageOf[p]] = @ \cup {calls[p].view}]
        /\ UNCHANGED <<now, ret>>

\* vote_restart, db.add_restart_vote: votes = get_restart_votes(session_id)
AddRestartVoteRead(pp) ==
    \E p \in pp, s \in SessionCodes :
        /\ At(p, "idle")
        /\ ResultView(s, PageOf[p])
        /\ LET votes == get_restart_votes(D, s)
           IN  Goto(p, IF in_list(PageOf[p], votes)
                       THEN "get_restart_votes"
                       ELSE "update_restart_votes",
                    [session_id |-> s, view |-> PHASE_RESULT, votes |-> votes])
        /\ UNCHANGED <<sessions, members, now, ret, done>>

\* vote_restart, db.add_restart_vote: votes.append(member_id) and the UPDATE
AddRestartVoteUpdate(pp) ==
    \E p \in pp :
        /\ At(p, "update_restart_votes")
        /\ sessions' = [sessions EXCEPT ![calls[p].session_id].restart_votes =
                            Append(calls[p].votes, PageOf[p])]
        /\ Goto(p, "get_restart_votes", [votes |-> <<>>])
        /\ UNCHANGED <<members, now, ret, done>>

\* vote_restart, votes = db.get_restart_votes(session_id)
GetRestartVotes(pp) ==
    \E p \in pp :
        /\ At(p, "get_restart_votes")
        /\ Goto(p, "get_active_members",
                [votes |-> get_restart_votes(D, calls[p].session_id)])
        /\ UNCHANGED <<sessions, members, now, ret, done>>

\* vote_restart, members = db.get_active_members(session_id) and return
VoteRestartReturn(pp) ==
    \E p \in pp :
        /\ At(p, "get_active_members")
        /\ LET active == get_active_members(D, calls[p].session_id)
               votes == calls[p].votes
           IN  Returns(p, "vote_restart",
                       [votes |-> Len(votes), total |-> Len(active),
                        all_voted |-> \A i \in 1..Len(active) :
                                         in_list(active[i].member_id, votes)])
        /\ calls' = [calls EXCEPT ![p] = IdleCall]
        /\ done' = [done EXCEPT ![PageOf[p]] = @ \cup {"vote_restart"}]
        /\ UNCHANGED <<sessions, members, now>>

\* join_session, session = db.get_session(session_code)
JoinGetSession(pp) ==
    \E p \in pp, s \in SessionCodes :
        /\ At(p, "idle")
        /\ IF ~session_exists(D, s)
           THEN /\ ret' = [op |-> "join_session", session_id |-> s,
                           member_id |-> PageOf[p], arg |-> p,
                           out |-> [success |-> FALSE, error |-> "Session not found"]]
                /\ UNCHANGED calls
           ELSE /\ Goto(p, "get_member",
                        [session_id |-> s, session |-> get_session(D, s).phase])
                /\ UNCHANGED ret
        /\ UNCHANGED <<sessions, members, now, done>>

\* join_session, existing_member = db.get_member(session_code, member_id)
JoinGetMember(pp) ==
    \E p \in pp :
        /\ At(p, "get_member")
        /\ Goto(p, IF has_member(D, calls[p].session_id, PageOf[p])
                   THEN "update_member_last_seen"
                   ELSE "add_member",
                [out |-> IF has_member(D, calls[p].session_id, PageOf[p])
                         THEN get_member(D, calls[p].session_id, PageOf[p]).is_observer
                         ELSE None])
        /\ UNCHANGED <<sessions, members, now, ret, done>>

\* join_session, db.update_member_last_seen(...) and the return of a rejoin
JoinUpdateMemberLastSeen(pp) ==
    \E p \in pp :
        /\ At(p, "update_member_last_seen")
        /\ Store(update_member_last_seen(D, calls[p].session_id, PageOf[p], now))
        /\ Returns(p, "join_session",
                   [success |-> TRUE, rejoined |-> TRUE,
                    is_observer |-> calls[p].out, phase |-> calls[p].session])
        /\ calls' = [calls EXCEPT ![p] = IdleCall]
        /\ UNCHANGED <<now, done>>

\* join_session, is_observer = session["phase"] != PHASE_ADDING and
\* db.add_member(...), which fails on a row another call has inserted
JoinAddMember(pp) ==
    \E p \in pp :
        /\ At(p, "add_member")
        /\ LET is_observer == calls[p].session # PHASE_ADDING
               r == add_member(D, calls[p].session_id, PageOf[p], is_observer, now)
           IN  /\ Store(r.db)
               /\ Returns(p, "join_session",
                          IF r.ok
                          THEN [success |-> TRUE, rejoined |-> FALSE,
                                is_observer |-> is_observer,
                                phase |-> calls[p].session]
                          ELSE [success |-> FALSE, error |-> "Could not join session"])
        /\ calls' = [calls EXCEPT ![p] = IdleCall]
        /\ UNCHANGED <<now, done>>

\* do_start_fresh of a page that shows the creator controls: vote_restart,
\* run here as one step, and the branch on all_voted
DoStartFreshVote(pp) ==
    \E p \in pp, s \in SessionCodes :
        /\ At(p, "idle")
        /\ CreatorControls(s, PageOf[p])
        /\ LET result == vote_restart(D, s, PageOf[p])
           IN  /\ Store(result.db)
               /\ ret' = [op |-> "vote_restart", session_id |-> s,
                          member_id |-> PageOf[p], arg |-> p, out |-> result.out]
               /\ Goto(p, IF result.out.all_voted THEN "clear_all_items" ELSE "refresh",
                       [session_id |-> s, view |-> PHASE_RESULT])
        /\ UNCHANGED <<now, done>>

\* the store calls of start_fresh, in the order of the code
StartFreshCalls ==
    <<"clear_all_items", "reset_all_ready_status", "reset_all_accepted_items",
      "clear_excluded_items", "clear_restart_votes", "promote_observers",
      "set_session_phase">>

start_fresh_call(d, k, session_id, t) ==
    CASE k = 1 -> clear_all_items(d, session_id)
      [] k = 2 -> reset_all_ready_status(d, session_id)
      [] k = 3 -> reset_all_accepted_items(d, session_id)
      [] k = 4 -> clear_excluded_items(d, session_id)
      [] k = 5 -> clear_restart_votes(d, session_id)
      [] k = 6 -> promote_observers(d, session_id)
      [] k = 7 -> set_session_phase(d, session_id, PHASE_ADDING, t)

\* start_fresh, one store call
StartFreshCall(pp) ==
    \E p \in pp, k \in 1..Len(StartFreshCalls) :
        /\ At(p, StartFreshCalls[k])
        /\ Store(start_fresh_call(D, k, calls[p].session_id, now))
        /\ Goto(p, IF k < Len(StartFreshCalls) THEN StartFreshCalls[k + 1] ELSE "refresh",
                <<>>)
        /\ UNCHANGED <<now, ret, done>>

(* Concurrent toggle_ready calls of three pages, two of the same member. *)

NextConcurrent ==
    \/ CreateSession(ScopeOps)
    \/ JoinSession(ScopeOps)
    \/ SetReadyGetMember(Pages)
    \/ SetMemberReady(Pages)
    \/ GetSession(Pages)
    \/ GetReadyStatusOfCall(Pages)
    \/ ResetAllReadyStatus(Pages)
    \/ SetSessionPhase(Pages)
    \/ Refresh(Pages)

SpecConcurrent == Init /\ [][NextConcurrent]_vars

(* Concurrent vote_restart calls of the pages of two members, in a session
   brought to the result phase. *)

NextVotes ==
    \/ CreateSession(ScopeOps)
    \/ JoinSession(ScopeOps)
    \/ SetReady(ScopeOps)
    \/ CheckAndAdvancePhase
    \/ AddRestartVoteRead({"p1", "p2"})
    \/ AddRestartVoteUpdate({"p1", "p2"})
    \/ GetRestartVotes({"p1", "p2"})
    \/ VoteRestartReturn({"p1", "p2"})

SpecVotes == Init /\ [][NextVotes]_vars

(* join_session of a page of m2, store call by store call, beside the     *)
(* creator's readiness and restart of the session.                         *)

NextJoin ==
    \/ CreateSession(ScopeOps)
    \/ SetReady(ScopeOps)
    \/ CheckAndAdvancePhase
    \/ JoinGetSession({"p2"})
    \/ JoinGetMember({"p2"})
    \/ JoinUpdateMemberLastSeen({"p2"})
    \/ JoinAddMember({"p2"})
    \/ DoStartFreshVote({"p1"})
    \/ StartFreshCall({"p1"})
    \/ Refresh({"p1"})

SpecJoin == Init /\ [][NextJoin]_vars

-----------------------------------------------------------------------------
(* Readiness barrier, phase machine and membership, three members, with    *)
(* the clock.                                                              *)

Next ==
    \/ Tick
    \/ CreateSession(ScopeBarrier)
    \/ JoinSession(ScopeBarrier)
    \/ SetReady(ScopeBarrier)
    \/ GetReadyStatus
    \/ CheckAndAdvancePhase
    \/ StartFresh
    \/ UpdateMemberLastSeen(ScopeBarrier)

Spec == Init /\ [][Next]_vars

(* The same for two members, with time passing and with                    *)
(* check_and_advance_phase invoked again and again: a call that would      *)
(* change the store is made in the end.                                    *)

NextLive ==
    \/ Tick
    \/ CreateSession(ScopeOps)
    \/ JoinSession(ScopeOps)
    \/ SetReady(ScopeOps)
    \/ GetReadyStatus
    \/ CheckAndAdvancePhase
    \/ StartFresh
    \/ UpdateMemberLastSeen(ScopeOps)

SpecLive ==
    /\ Init /\ [][NextLive]_vars
    /\ WF_now(Tick)
    /\ WF_<<sessions, members>>(CheckAndAdvancePhase)

(* Every operation of session.py, two members, the clock standing still. *)

NextOps ==
    \/ CreateSession(ScopeOps)
    \/ JoinSession(ScopeOps)
    \/ AddItem(ScopeOps)
    \/ RemoveItem(ScopeOps)
    \/ SetReady(ScopeOps)
    \/ GetReadyStatus
    \/ CheckAndAdvancePhase
    \/ SetAcceptedItems(ScopeOps)
    \/ SelectItem
    \/ Reroll
    \/ RollNext(ScopeRolls)
    \/ VoteRestart(ScopeOps)
    \/ StartFresh
    \/ LeaveSession(ScopeOps)
    \/ GetSessionState(ScopeOps)
    \/ UpdateMemberLastSeen(ScopeOps)

SpecOps == Init /\ [][NextOps]_vars

(* Membership: joining and rejoining members that hold items, acceptances  *)
(* and readiness, two members, with the clock.                             *)

NextMembers ==
    \/ Tick
    \/ CreateSession(ScopeMembers)
    \/ JoinSession(ScopeMembers)
    \/ AddItem(ScopeMembers)
    \/ SetReady(ScopeMembers)
    \/ SetAcceptedItems(ScopeMembers)
    \/ GetReadyStatus
    \/ CheckAndAdvancePhase
    \/ StartFresh

SpecMembers == Init /\ [][NextMembers]_vars

(* Observers: the members' operations with the restart votes and the clock,
   so that observers join, go stale, vote and are promoted. *)

NextObservers ==
    \/ Tick
    \/ CreateSession(ScopeObservers)
    \/ JoinSession(ScopeObservers)
    \/ AddItem(ScopeObservers)
    \/ SetReady(ScopeObservers)
    \/ SetAcceptedItems(ScopeObservers)
    \/ GetReadyStatus
    \/ CheckAndAdvancePhase
    \/ VoteRestart(ScopeObservers)
    \/ StartFresh

SpecObservers == Init /\ [][NextObservers]_vars

(* The restart barrier: three members that join in any phase and vote. *)

NextRestart ==
    \/ CreateSession(ScopeBarrier)
    \/ JoinSession(ScopeBarrier)
    \/ SetReady(ScopeBarrier)
    \/ CheckAndAdvancePhase
    \/ VoteRestart(ScopeBarrier)
    \/ StartFresh

SpecRestart == Init /\ [][NextRestart]_vars

(* Grouping: two members that propose and accept items of two normalized
   keys, one of them typed in two ways, with items rolled away. *)

NextGroups ==
    \/ CreateSession(ScopeGroups)
    \/ JoinSession(ScopeGroups)
    \/ AddItem(ScopeGroups)
    \/ SetAcceptedItems(ScopeGroups)
    \/ RollNext(ScopeSelect)
    \/ GroupItemsByAcceptance

SpecGroups == Init /\ [][NextGroups]_vars

(* The acceptance checklist: two members that propose and withdraw items
   of two normalized keys, one of them typed in two ways, up to the
   accepting phase. *)

NextChecklist ==
    \/ CreateSession(ScopeGroups)
    \/ JoinSession(ScopeGroups)
    \/ AddItem(ScopeGroups)
    \/ RemoveItem(ScopeGroups)
    \/ SetReady(ScopeGroups)
    \/ CheckAndAdvancePhase
    \/ GetItemsForAcceptance(ScopeGroups)

SpecChecklist == Init /\ [][NextChecklist]_vars

(* The random index: fair_random_select with lengths up to MaxLength and
   draws at both ends of the range of randint. *)

NextRandom == FairRandomSelect

SpecRandom == Init /\ [][NextRandom]_vars

(* Normalisation: normalize_item on every string of up to MaxTextLen
   characters, items_equal on every pair of strings of up to MaxPairLen. *)

NextNormalize ==
    \/ NormalizeItem
    \/ ItemsEqual

SpecNormalize == Init /\ [][NextNormalize]_vars

(* Selection: two members that propose and withdraw items of two normalized
   keys, and the three ways of drawing one; roll_next is also called with an
   item typed differently from the one held. *)

NextSelect ==
    \/ CreateSession(ScopeSelect)
    \/ JoinSession(ScopeSelect)
    \/ AddItem(ScopeSelect)
    \/ RemoveItem(ScopeSelect)
    \/ SelectItem
    \/ Reroll
    \/ RollNext(ScopeGroups)

SpecSelect == Init /\ [][NextSelect]_vars

(* The item manager: items typed with every text of Texts. *)

NextItems ==
    \/ CreateSession(ScopeItems)
    \/ JoinSession(ScopeItems)
    \/ AddItem(ScopeItems)
    \/ RemoveItem(ScopeItems)
    \/ SetReady(ScopeItems)
    \/ CheckAndAdvancePhase
    \/ StartFresh

SpecItems == Init /\ [][NextItems]_vars

(* Refused calls: two members whose calls are refused (no session, no      *)
(* member, an observer, a ready member, an empty or duplicate item, an     *)
(* index outside the list) while time passes.                              *)

NextFailures ==
    \/ Tick
    \/ CreateSession(ScopeFailures)
    \/ JoinSession(ScopeFailures)
    \/ AddItem(ScopeFailures)
    \/ RemoveItem(ScopeFailures)
    \/ SetReady(ScopeFailures)
    \/ SetAcceptedItems(ScopeFailures)
    \/ CheckAndAdvancePhase

SpecFailures == Init /\ [][NextFailures]_vars

(* The application's readiness flow with the clock: pages are opened, shown *)
(* again and toggle readiness while time passes.                            *)

NextRefresh ==
    \/ Tick
    \/ PageCreateSession(ScopeOps)
    \/ PageJoinSession(ScopeOps)
    \/ ShowSession(ScopeOps)
    \/ ToggleReadyAdding(ScopeOps)
    \/ ToggleReadyAccepting(ScopeOps)

SpecRefresh == Init /\ [][NextRefresh]_vars

(* The application: the pages of two members, the clock standing still. *)

NextApp ==
    \/ PageCreateSession(ScopeApp)
    \/ PageJoinSession(ScopeApp)
    \/ ShowSession(ScopeApp)
    \/ PageAddItem(ScopeApp)
    \/ PageRemoveItem(ScopeApp)
    \/ ToggleReadyAdding(ScopeApp)
    \/ ToggleReadyAccepting(ScopeApp)
    \/ SaveAcceptedItems(ScopeApp)
    \/ DoReroll(ScopeApp)
    \/ DoRollNext(ScopeApp)
    \/ DoStartFresh(ScopeApp)

SpecApp == Init /\ [][NextApp]_vars

-----------------------------------------------------------------------------
(* Vocabulary of the properties *)

Live(s) == s \in DOMAIN sessions
Phase(s) == sessions[s].phase

\* rows of the members of s, and of its active (non-observer) members
MemberIdx(s) == { i \in 1..Len(members) : members[i].session_id = s }
ActiveIdx(s) == { i \in MemberIdx(s) : ~members[i].is_observer }

\* last seen longer ago than the auto-ready timeout
Stale(i) == now - members[i].last_seen > AUTO_READY_TIMEOUT

\* ready once the auto-ready promotion has run
ReadyAfterPromotion(i) == members[i].is_ready \/ Stale(i)

\* the step is a call of op on session s
Call(op, s) == ret'.op = op /\ ret'.session_id = s

-----------------------------------------------------------------------------
(* Readiness barrier and phase machine *)

\* C1: a check_and_advance_phase call on an existing session returns None and
\* leaves the phase alone whenever, after auto-ready promotion, some active
\* member is not ready; it changes the phase only when there is an active
\* member and every active member is ready.
C1_BarrierSafety ==
    [][\A s \in SessionCodes :
          (Call("check_and_advance_phase", s) /\ Live(s)) =>
              /\ (\E i \in ActiveIdx(s) : ~ReadyAfterPromotion(i)) =>
                     (ret'.out = None /\ sessions'[s].phase = Phase(s))
              /\ sessions'[s].phase # Phase(s) =>
                     /\ ActiveIdx(s) # {}
                     /\ \A i \in ActiveIdx(s) : ReadyAfterPromotion(i)]_vars

\* C1 witness: the call has just returned None on a session where one active
\* member is ready and another is not.
C1_Witness ==
    \E s \in SessionCodes :
        /\ Live(s)
        /\ ret.op = "check_and_advance_phase" /\ ret.session_id = s /\ ret.out = None
        /\ \E i \in ActiveIdx(s) : members[i].is_ready
        /\ \E i \in ActiveIdx(s) : ~members[i].is_ready

\* C2: in phase ADDING with no stale member, (a) the phase stays ADDING over
\* every step taken while some active member is not ready; (b) with every one
\* of the N >= 1 active members ready, check_and_advance_phase returns
\* ACCEPTING, sets the phase and clears every member's is_ready; (c) the call
\* repeated right after it returns None and leaves the phase ACCEPTING.
C2_AdvanceOncePerRound ==
    [][\A s \in SessionCodes :
          (Live(s) /\ \A i \in ActiveIdx(s) : ~Stale(i)) =>
              /\ (Phase(s) = PHASE_ADDING /\ \E i \in ActiveIdx(s) : ~members[i].is_ready) =>
                     sessions'[s].phase = PHASE_ADDING
              /\ (/\ Phase(s) = PHASE_ADDING
                  /\ ActiveIdx(s) # {}
                  /\ \A i \in ActiveIdx(s) : members[i].is_ready
                  /\ Call("check_and_advance_phase", s)) =>
                     /\ ret'.out = PHASE_ACCEPTING
                     /\ sessions'[s].phase = PHASE_ACCEPTING
                     /\ \A i \in 1..Len(members') :
                            members'[i].session_id = s => ~members'[i].is_ready
              /\ (/\ ret.op = "check_and_advance_phase" /\ ret.session_id = s
                  /\ ret.out = PHASE_ACCEPTING
                  /\ Call("check_and_advance_phase", s)) =>
                     (ret'.out = None /\ sessions'[s].phase = PHASE_ACCEPTING)]_vars

\* C2 witness: the advance to ACCEPTING has just been reported for a session
\* with two or more active members, whose flags are all cleared.
C2_Witness ==
    \E s \in SessionCodes :
        /\ Live(s) /\ Phase(s) = PHASE_ACCEPTING
        /\ ret.op = "check_and_advance_phase" /\ ret.session_id = s
        /\ ret.out = PHASE_ACCEPTING
        /\ Cardinality(ActiveIdx(s)) >= 2
        /\ \A i \in ActiveIdx(s) : ~members[i].is_ready /\ ~Stale(i)

\* C3: the phase of a session changes only by check_and_advance_phase taking
\* ADDING to ACCEPTING or ACCEPTING to RESULT, and by start_fresh, which sets
\* it to ADDING; no other operation changes it and no step takes ADDING to
\* RESULT.
C3_PhaseMonotonic ==
    [][\A s \in SessionCodes :
          Live(s) =>
              /\ sessions'[s].phase # Phase(s) =>
                     \/ /\ Call("check_and_advance_phase", s)
                        /\ <<Phase(s), sessions'[s].phase>> \in
                               { <<PHASE_ADDING, PHASE_ACCEPTING>>,
                                 <<PHASE_ACCEPTING, PHASE_RESULT>> }
                     \/ Call("start_fresh", s)
              /\ Call("start_fresh", s) => sessions'[s].phase = PHASE_ADDING]_vars

\* C3 witness: the second advance has run, the phase having gone from ADDING
\* through ACCEPTING to RESULT.
C3_Witness ==
    \E s \in SessionCodes :
        /\ Live(s) /\ Phase(s) = PHASE_RESULT
        /\ ret.op = "check_and_advance_phase" /\ ret.session_id = s
        /\ ret.out = PHASE_RESULT

\* C4: in phase RESULT check_and_advance_phase returns None and leaves the
\* phase RESULT whatever the readiness flags are, and the only operation that
\* takes the session out of RESULT is start_fresh.
C4_ResultAbsorbing ==
    [][\A s \in SessionCodes :
          (Live(s) /\ Phase(s) = PHASE_RESULT) =>
              /\ Call("check_and_advance_phase", s) =>
                     (ret'.out = None /\ sessions'[s].phase = PHASE_RESULT)
              /\ sessions'[s].phase # PHASE_RESULT => Call("start_fresh", s)]_vars

\* C4 witness: check_and_advance_phase has returned None in phase RESULT with
\* every active member ready.
C4_Witness ==
    \E s \in SessionCodes :
        /\ Live(s) /\ Phase(s) = PHASE_RESULT
        /\ ret.op = "check_and_advance_phase" /\ ret.session_id = s /\ ret.out = None
        /\ \A i \in ActiveIdx(s) : members[i].is_ready

\* C5: get_ready_status reports as total the number of active members, as
\* ready the number of active members that are ready or stale, sets the
\* stored flag of every stale member that was not ready, leaves the members
\* that are neither ready nor stale unchanged, and reports all_ready iff
\* ready = total and total > 0.
C5_AutoReady ==
    [][\A s \in SessionCodes :
          Call("get_ready_status", s) =>
              /\ Len(members') = Len(members)
              /\ ret'.out.total = Cardinality(ActiveIdx(s))
              /\ ret'.out.ready =
                     Cardinality({ i \in ActiveIdx(s) : ReadyAfterPromotion(i) })
              /\ \A i \in ActiveIdx(s) :
                     /\ (~members[i].is_ready /\ Stale(i)) => members'[i].is_ready
                     /\ (~members[i].is_ready /\ ~Stale(i)) => members'[i] = members[i]
              /\ ret'.out.all_ready <=>
                     (ret'.out.ready = ret'.out.total /\ ret'.out.total > 0)]_vars

\* C5 witness: get_ready_status has counted one of several active members:
\* one holds the flag with last_seen at the time of the call, later than the
\* timeout, and another, seen within the timeout, is still not ready.
C5_Witness ==
    \E s \in SessionCodes :
        /\ ret.op = "get_ready_status" /\ ret.session_id = s
        /\ ret.out.ready = 1 /\ ret.out.total >= 2 /\ ~ret.out.all_ready
        /\ now > AUTO_READY_TIMEOUT
        /\ \E i \in ActiveIdx(s) : members[i].is_ready /\ members[i].last_seen = now
        /\ \E i \in ActiveIdx(s) : ~members[i].is_ready /\ ~Stale(i)

-----------------------------------------------------------------------------
(* Membership and observers *)

\* the rows of member m in session s (one row or none)
RowsOf(s, m) == { i \in MemberIdx(s) : members[i].member_id = m }

\* C6: a join_session that creates a member of an existing session appends a
\* row whose is_observer flag is true iff the phase at the join is not
\* ADDING, with no items, no accepted items and is_ready false, and reports
\* that flag.
C6_ObserverOnJoin ==
    [][\A s \in SessionCodes :
          (Call("join_session", s) /\ Live(s) /\ RowsOf(s, ret'.member_id) = {}) =>
              /\ ret'.out.success /\ ~ret'.out.rejoined
              /\ ret'.out.is_observer = (Phase(s) # PHASE_ADDING)
              /\ members' = Append(members,
                     [session_id |-> s, member_id |-> ret'.member_id,
                      items |-> <<>>, is_ready |-> FALSE, accepted_items |-> <<>>,
                      is_observer |-> (Phase(s) \in {PHASE_ACCEPTING, PHASE_RESULT}),
                      last_seen |-> now])]_vars

\* C6 witness: a member has just joined as an observer, in phase ACCEPTING,
\* a session in which another member had joined as an active member.
C6_Witness ==
    \E s \in SessionCodes :
        /\ Live(s) /\ Phase(s) = PHASE_ACCEPTING
        /\ ret.op = "join_session" /\ ret.session_id = s
        /\ ret.out.success /\ ~ret.out.rejoined /\ ret.out.is_observer
        /\ \E i \in MemberIdx(s) :
               members[i].member_id = ret.member_id /\ members[i].is_observer
        /\ Cardinality(ActiveIdx(s)) >= 2

\* C7: join_session by a member who has a row in the session returns
\* rejoined = true with the member's observer flag and changes nothing in the
\* store but that member's last_seen; join_session on a code with no session
\* fails and changes nothing.
C7_RejoinIdempotent ==
    [][\A s \in SessionCodes :
          Call("join_session", s) =>
              /\ ~Live(s) =>
                     /\ ~ret'.out.success
                     /\ members' = members
                     /\ sessions' = sessions
              /\ \A i \in RowsOf(s, ret'.member_id) :
                     /\ ret'.out.success /\ ret'.out.rejoined
                     /\ ret'.out.is_observer = members[i].is_observer
                     /\ sessions' = sessions
                     /\ members' = [members EXCEPT ![i].last_seen = now]]_vars

\* C7 witness: a member holding an item, an accepted item and the ready flag
\* has just rejoined in phase RESULT, later than it was last seen before.
C7_Witness ==
    \E s \in SessionCodes :
        /\ Live(s) /\ Phase(s) = PHASE_RESULT
        /\ ret.op = "join_session" /\ ret.session_id = s
        /\ ret.out.success /\ ret.out.rejoined
        /\ sessions[s].last_activity < now
        /\ \E i \in MemberIdx(s) :
               /\ members[i].member_id = ret.member_id
               /\ members[i].items # <<>>
               /\ members[i].accepted_items # <<>>
               /\ members[i].is_ready
               /\ members[i].last_seen = now

\* C8: for an observer, add_item (of a text that is not empty once stripped),
\* set_ready and set_accepted_items fail with the observer error and leave
\* the observer's row unchanged; get_ready_status counts only active members
\* in total and ready, and vote_restart only active members in total.
C8_ObserverRestrictions ==
    [][\A s \in SessionCodes :
          /\ \A i \in RowsOf(s, ret'.member_id) :
                 (members[i].is_observer /\ ret'.session_id = s) =>
                     /\ (ret'.op = "add_item" /\ strip(ret'.arg) # <<>>) =>
                            /\ ~ret'.out.success
                            /\ ret'.out.error = "Observers cannot add items"
                            /\ members'[i] = members[i]
                     /\ ret'.op = "set_ready" =>
                            /\ ~ret'.out.success
                            /\ ret'.out.error = "Observers cannot set ready status"
                            /\ members'[i] = members[i]
                     /\ ret'.op = "set_accepted_items" =>
                            /\ ~ret'.out.success
                            /\ ret'.out.error = "Observers cannot accept items"
                            /\ members'[i] = members[i]
          /\ Call("get_ready_status", s) =>
                 /\ ret'.out.total = Cardinality(ActiveIdx(s))
                 /\ ret'.out.ready =
                        Cardinality({ i \in ActiveIdx(s) : ReadyAfterPromotion(i) })
          /\ Call("vote_restart", s) =>
                 ret'.out.total = Cardinality(ActiveIdx(s))]_vars

\* C8 witness: an observer's add_item has just failed with the observer error.
C8_Witness ==
    \E s \in SessionCodes :
        /\ ret.op = "add_item" /\ ret.session_id = s
        /\ ~ret.out.success /\ ret.out.error = "Observers cannot add items"
        /\ \E i \in MemberIdx(s) :
               members[i].member_id = ret.member_id /\ members[i].is_observer

\* C9: a member's is_observer flag changes only in a start_fresh step, from
\* true to false; start_fresh clears it for every member of the session; no
\* step sets it, and no step removes or reorders member rows.
C9_ObserverOnlyByRestart ==
    [][/\ Len(members') >= Len(members)
       /\ \A i \in 1..Len(members) :
              /\ members'[i].member_id = members[i].member_id
              /\ members'[i].session_id = members[i].session_id
              /\ members'[i].is_observer # members[i].is_observer =>
                     /\ Call("start_fresh", members[i].session_id)
                     /\ members[i].is_observer
              /\ Call("start_fresh", members[i].session_id) =>
                     ~members'[i].is_observer]_vars

\* C9 witness: an observer has just voted for a restart in phase RESULT and
\* is still an observer.
C9_Witness ==
    \E s \in SessionCodes :
        /\ Live(s) /\ Phase(s) = PHASE_RESULT
        /\ ret.op = "vote_restart" /\ ret.session_id = s
        /\ \E i \in MemberIdx(s) :
               members[i].member_id = ret.member_id /\ members[i].is_observer

-----------------------------------------------------------------------------
(* Item manager *)

\* no entry with an empty normalized key, no two entries with the same key
Deduplicated(items) ==
    /\ \A i \in 1..Len(items) : normalize_item(items[i]) # <<>>
    /\ \A i, j \in 1..Len(items) :
           i # j => normalize_item(items[i]) # normalize_item(items[j])

\* C10: every member's items list is deduplicated in every reachable state,
\* and an add_item of a text whose normalized key is empty or is the key of
\* an item the member already holds fails and leaves the list unchanged.
C10_Deduplication ==
    /\ [](\A i \in 1..Len(members) : Deduplicated(members[i].items))
    /\ [][\A s \in SessionCodes :
             Call("add_item", s) =>
                 \A i \in RowsOf(s, ret'.member_id) :
                     (\/ normalize_item(ret'.arg) = <<>>
                      \/ \E k \in 1..Len(members[i].items) :
                             normalize_item(members[i].items[k]) =
                                 normalize_item(ret'.arg)) =>
                         /\ ~ret'.out.success
                         /\ members'[i].items = members[i].items]_vars

\* C10 witness: " A!" has just been refused as a duplicate by a member that
\* holds "a" and a second item.
C10_Witness ==
    \E s \in SessionCodes :
        /\ ret.op = "add_item" /\ ret.session_id = s
        /\ ret.arg = <<" ", "A", "!">>
        /\ ~ret.out.success /\ ret.out.error = "Duplicate item"
        /\ \E i \in MemberIdx(s) :
               /\ members[i].member_id = ret.member_id
               /\ Len(members[i].items) = 2
               /\ \E k \in 1..2 : members[i].items[k] = <<"a">>

\* C11: while a member's stored is_ready flag is true, add_item and
\* remove_item by that member fail and leave its items unchanged, and the
\* items of a ready member change in no step but start_fresh, which resets
\* the flag as it clears them.
C11_ReadyFreezesItems ==
    [][\A i \in 1..Len(members) :
          members[i].is_ready =>
              /\ (/\ ret'.op \in {"add_item", "remove_item"}
                  /\ ret'.session_id = members[i].session_id
                  /\ ret'.member_id = members[i].member_id) =>
                     /\ ~ret'.out.success
                     /\ members'[i].items = members[i].items
              /\ members'[i].items # members[i].items =>
                     /\ Call("start_fresh", members[i].session_id)
                     /\ ~members'[i].is_ready]_vars

\* C11 witness: remove_item of the first item has just been refused to a
\* ready member that holds two items.
C11_Witness ==
    \E s \in SessionCodes :
        /\ ret.op = "remove_item" /\ ret.session_id = s /\ ret.arg = 0
        /\ ~ret.out.success
        /\ ret.out.error = "Cannot remove items after marking ready"
        /\ \E i \in MemberIdx(s) :
               /\ members[i].member_id = ret.member_id
               /\ members[i].is_ready
               /\ Len(members[i].items) = 2

\* C12: add_item and remove_item succeed only while the phase is ADDING, and
\* no member's items change while the phase is ACCEPTING or RESULT other than
\* by start_fresh.
C12_ItemsOnlyInAdding ==
    [][\A s \in SessionCodes :
          (Live(s) /\ Phase(s) # PHASE_ADDING) =>
              /\ (Call("add_item", s) \/ Call("remove_item", s)) =>
                     ~ret'.out.success
              /\ \A i \in MemberIdx(s) :
                     members'[i].items # members[i].items =>
                         Call("start_fresh", s)]_vars

-----------------------------------------------------------------------------
(* Restart barrier *)

\* the restart votes of s as a set
VoteSet(s) == { sessions[s].restart_votes[k] : k \in 1..Len(sessions[s].restart_votes) }

\* C13: vote_restart(s, m) adds m to the restart votes of s and changes
\* nothing else (nothing at all when m has voted before), reports total = the
\* number of active members and all_voted = true iff every active member is
\* in the vote set, so all_voted is false while fewer active members than
\* there are have voted; the votes change in no step but vote_restart and
\* start_fresh, which empties them.
C13_RestartUnanimity ==
    [][\A s \in SessionCodes :
          /\ (Call("vote_restart", s) /\ Live(s)) =>
                 LET votes == sessions'[s].restart_votes
                     voted == { votes[k] : k \in 1..Len(votes) }
                     active_voted == { i \in ActiveIdx(s) : members[i].member_id \in voted }
                 IN  /\ voted = VoteSet(s) \cup {ret'.member_id}
                     /\ Len(votes) = Cardinality(voted)
                     /\ ret'.member_id \in VoteSet(s) => sessions' = sessions
                     /\ sessions' = [sessions EXCEPT ![s].restart_votes = votes]
                     /\ members' = members
                     /\ ret'.out.total = Cardinality(ActiveIdx(s))
                     /\ ret'.out.all_voted = (active_voted = ActiveIdx(s))
                     /\ Cardinality(active_voted) < Cardinality(ActiveIdx(s)) =>
                            ~ret'.out.all_voted
          /\ (Live(s) /\ sessions'[s].restart_votes # sessions[s].restart_votes) =>
                 \/ Call("vote_restart", s)
                 \/ Call("start_fresh", s) /\ sessions'[s].restart_votes = <<>>]_vars

\* C13 witness: with three active members, the second vote has just been
\* cast and reported all_voted = false.
C13_Witness ==
    \E s \in SessionCodes :
        /\ Live(s) /\ Phase(s) = PHASE_RESULT
        /\ ret.op = "vote_restart" /\ ret.session_id = s
        /\ Cardinality(ActiveIdx(s)) = 3
        /\ ret.out = [votes |-> 2, total |-> 3, all_voted |-> FALSE]
        /\ Cardinality(VoteSet(s)) = 2

\* C14: in the application the phase of a session goes back to ADDING only
\* in a do_start_fresh step whose vote_restart reported all_voted = true,
\* every active member then being in the vote set with the voter; a
\* do_start_fresh whose vote reported all_voted = false resets nothing, and
\* while an active member is outside the vote set and is not the voter, no
\* step moves the phase back or empties the items of a member.
C14_RestartGated ==
    [][\A s \in SessionCodes :
          Live(s) =>
              LET voters == IF Call("do_start_fresh", s)
                            THEN VoteSet(s) \cup {ret'.member_id}
                            ELSE VoteSet(s)
                  missing == { i \in ActiveIdx(s) : members[i].member_id \notin voters }
                  reset == Phase(s) # PHASE_ADDING /\ sessions'[s].phase = PHASE_ADDING
              IN  /\ reset =>
                         /\ Call("do_start_fresh", s)
                         /\ ret'.out.all_voted /\ ret'.out.reset
                         /\ missing = {}
                         /\ sessions'[s].restart_votes = <<>>
                  /\ (Call("do_start_fresh", s) /\ ~ret'.out.all_voted) =>
                         /\ ~ret'.out.reset
                         /\ sessions'[s].phase = Phase(s)
                         /\ VoteSet(s) \cup {ret'.member_id} \subseteq
                                { sessions'[s].restart_votes[k] :
                                      k \in 1..Len(sessions'[s].restart_votes) }
                         /\ \A i \in MemberIdx(s) :
                                /\ members'[i].items = members[i].items
                                /\ members'[i].is_observer = members[i].is_observer
                  /\ missing # {} =>
                         /\ ~reset
                         /\ \A i \in MemberIdx(s) :
                                (members[i].items # <<>> /\ members'[i].items = <<>>) =>
                                    Call("page_remove_item", s)]_vars

\* C14 witness: the creator, the only active member, has just voted in a
\* session whose second member was an observer; the session is reset and
\* the observer promoted.
C14_Witness ==
    \E s \in SessionCodes :
        /\ Live(s) /\ Phase(s) = PHASE_ADDING
        /\ ret.op = "do_start_fresh" /\ ret.session_id = s
        /\ Cardinality(MemberIdx(s)) = 2
        /\ Cardinality(ActiveIdx(s)) = 2
        /\ ret.out = [votes |-> 1, total |-> 1, all_voted |-> TRUE, reset |-> TRUE]
        /\ VoteSet(s) = {}

\* C15: start_fresh(s) leaves every member of s with empty items, is_ready
\* false, empty accepted items and is_observer false, the session with empty
\* excluded items and restart votes and phase ADDING; the members of s, their
\* ids, the creator id and every other session are unchanged.
C15_StartFreshPostcondition ==
    [][\A s \in SessionCodes :
          (Call("start_fresh", s) /\ Live(s)) =>
              /\ Len(members') = Len(members)
              /\ \A i \in 1..Len(members) :
                     members'[i] =
                         IF members[i].session_id = s
                         THEN [members[i] EXCEPT !.items = <<>>,
                                                 !.is_ready = FALSE,
                                                 !.accepted_items = <<>>,
                                                 !.is_observer = FALSE]
                         ELSE members[i]
              /\ sessions' = [sessions EXCEPT ![s].phase = PHASE_ADDING,
                                              ![s].excluded_items = <<>>,
                                              ![s].restart_votes = <<>>,
                                              ![s].last_activity = now]
              /\ sessions'[s].creator_id = sessions[s].creator_id]_vars

\* C15 witness: start_fresh has just reset a session of two members.
C15_Witness ==
    \E s \in SessionCodes :
        /\ Live(s) /\ Phase(s) = PHASE_ADDING
        /\ ret.op = "start_fresh" /\ ret.session_id = s
        /\ Cardinality(MemberIdx(s)) = 2
        /\ \A i \in MemberIdx(s) :
               /\ members[i].items = <<>> /\ members[i].accepted_items = <<>>
               /\ ~members[i].is_ready /\ ~members[i].is_observer
        /\ sessions[s].excluded_items = <<>> /\ sessions[s].restart_votes = <<>>

-----------------------------------------------------------------------------
(* Grouping and selection *)

\* the normalized keys of a list of items
Keys(items) == { normalize_item(items[k]) : k \in 1..Len(items) }

\* the active members of s that own, and that have accepted, an item of the key
Owners(s, key) ==
    { members[i].member_id : i \in { j \in ActiveIdx(s) : key \in Keys(members[j].items) } }
Accepters(s, key) ==
    { members[i].member_id :
        i \in { j \in ActiveIdx(s) : key \in Keys(members[j].accepted_items) } }

\* the keys and the strings held by the active members of s
HeldKeys(s) == UNION { Keys(members[i].items) : i \in ActiveIdx(s) }
HeldItems(s) ==
    UNION { { members[i].items[k] : k \in 1..Len(members[i].items) } : i \in ActiveIdx(s) }

\* the positions <<g, k>> of the items of a key in a list of groups
Places(groups, key) ==
    { p \in (1..Len(groups)) \X (1..MaxItems * Cardinality(MemberIds)) :
        /\ p[2] <= Len(groups[p[1]].items)
        /\ normalize_item(groups[p[1]].items[p[2]]) = key }

\* C16: every item in the result of group_items_by_acceptance is an item of
\* an active member, and the key of its group is exactly the set of active
\* members that own it or have it among their accepted items, whatever the
\* order of the member rows.
C16_AcceptanceCrediting ==
    \A s \in SessionCodes :
        (ret.op = "group_items_by_acceptance" /\ ret.session_id = s /\ Live(s)) =>
            \A g \in 1..Len(ret.out) :
                \A k \in 1..Len(ret.out[g].items) :
                    LET key == normalize_item(ret.out[g].items[k])
                    IN  /\ key \in HeldKeys(s)
                        /\ ret.out[g].acceptors = Owners(s, key) \cup Accepters(s, key)

Pool(s) == { item \in HeldItems(s) : ~any_items_equal(item, sessions[s].excluded_items) }

\* C18: select_item(s) returns None iff no active member holds an item, and
\* otherwise a string held by an active member that no excluded item of the
\* state after the call equals; it empties excluded_items when no held item
\* is left in the pool and changes nothing else.
C18_SelectItemValid ==
    [][\A s \in SessionCodes :
          (Call("select_item", s) /\ Live(s)) =>
              /\ members' = members
              /\ sessions' = [sessions EXCEPT ![s].excluded_items =
                                 IF Pool(s) = {} THEN <<>> ELSE @]
              /\ IF HeldItems(s) = {}
                 THEN ret'.out = None
                 ELSE /\ ret'.out \in HeldItems(s)
                      /\ ~any_items_equal(ret'.out, sessions'[s].excluded_items)]_vars

\* C18 witness: select_item has just returned "b" from a pool of "a" and "b"
\* with "a" excluded.
C18_Witness ==
    \E s \in SessionCodes :
        /\ Live(s)
        /\ ret.op = "select_item" /\ ret.session_id = s
        /\ HeldItems(s) = { <<"a">>, <<"b">> }
        /\ sessions[s].excluded_items = << <<"a">> >>
        /\ ret.out = <<"b">>

\* draws from a pool of two keys of which one is excluded return the other
TwoItemPool ==
    [][\A s \in SessionCodes :
          (/\ Call("select_item", s) \/ Call("reroll", s)
           /\ Live(s)
           /\ Cardinality(HeldKeys(s)) = 2
           /\ Cardinality(HeldKeys(s) \cap Keys(sessions[s].excluded_items)) = 1) =>
              /\ normalize_item(ret'.out) \in HeldKeys(s)
              /\ normalize_item(ret'.out) \notin Keys(sessions[s].excluded_items)
              /\ sessions' = sessions]_vars

\* C19 as stated: whenever the active members hold an item of another key
\* than current, roll_next(s, current) returns an item that is not
\* normalized-equal to current; and draws from a two-item pool with one item
\* rolled away return the other.
C19_RollNextAvoidsCurrent ==
    /\ [][\A s \in SessionCodes :
             (/\ Call("roll_next", s) /\ Live(s)
              /\ \E item \in HeldItems(s) : ~items_equal(item, ret'.arg)) =>
                 ~items_equal(ret'.out, ret'.arg)]_vars
    /\ TwoItemPool

\* C19 amended: whenever the active members hold an item that neither current
\* nor an excluded item equals, roll_next(s, current) adds current to
\* excluded_items (unless an excluded item equals it) and returns an item of
\* the pool that is not normalized-equal to current; when every held item is
\* then excluded, the pool is recycled and any held item may be returned.
C19_RollNextAvoidsCurrentInPool ==
    /\ [][\A s \in SessionCodes :
             (Call("roll_next", s) /\ Live(s)) =>
                 LET excluded == sessions[s].excluded_items
                     current == ret'.arg
                     added == IF any_items_equal(current, excluded)
                              THEN excluded
                              ELSE Append(excluded, current)
                     rest == { item \in Pool(s) : ~items_equal(item, current) }
                 IN  /\ members' = members
                     /\ IF rest # {}
                        THEN /\ ret'.out \in rest
                             /\ sessions' = [sessions EXCEPT ![s].excluded_items = added]
                        ELSE /\ sessions' = [sessions EXCEPT ![s].excluded_items = <<>>]
                             /\ IF HeldItems(s) = {}
                                THEN ret'.out = None
                                ELSE ret'.out \in HeldItems(s)]_vars
    /\ TwoItemPool

\* C19 witness: roll_next of "A!" has just returned "b" from a pool of "a"
\* and "b", and "A!" is excluded.
C19_Witness ==
    \E s \in SessionCodes :
        /\ Live(s)
        /\ ret.op = "roll_next" /\ ret.session_id = s
        /\ HeldItems(s) = { <<"a">>, <<"b">> }
        /\ sessions[s].excluded_items = << <<"A", "!">> >>
        /\ ret.arg = <<"A", "!">> /\ ret.out = <<"b">>

\* C20 as stated: reroll(s) modifies neither excluded_items nor any other
\* field of the session or of its members.
C20_RerollKeepsExclusions ==
    [][\A s \in SessionCodes :
          Call("reroll", s) => (sessions' = sessions /\ members' = members)]_vars

\* C20 amended: reroll(s) modifies no member and no field of the session but
\* excluded_items, which it leaves unchanged while a held item is in the pool
\* and empties when none is; it returns an item of the pool, of the recycled
\* pool in the latter case, or None when no item is held.
C20_RerollKeepsExclusionsInPool ==
    [][\A s \in SessionCodes :
          (Call("reroll", s) /\ Live(s)) =>
              /\ members' = members
              /\ IF Pool(s) # {}
                 THEN /\ sessions' = sessions
                      /\ ret'.out \in Pool(s)
                 ELSE /\ sessions' = [sessions EXCEPT ![s].excluded_items = <<>>]
                      /\ IF HeldItems(s) = {}
                         THEN ret'.out = None
                         ELSE ret'.out \in HeldItems(s)]_vars

\* C20 witness: reroll has just returned "b" again from a pool of "a" and "b"
\* with "a" excluded, and "a" is still excluded.
C20_Witness ==
    \E s \in SessionCodes :
        /\ Live(s)
        /\ ret.op = "reroll" /\ ret.session_id = s
        /\ HeldItems(s) = { <<"a">>, <<"b">> }
        /\ sessions[s].excluded_items = << <<"a">> >>
        /\ ret.out = <<"b">>

-----------------------------------------------------------------------------
(* Acceptance checklist *)

\* the items of member m of s
ItemsOf(s, m) ==
    UNION { { members[i].items[k] : k \in 1..Len(members[i].items) } :
              i \in { j \in MemberIdx(s) : members[j].member_id = m } }

\* C21: no item returned by get_items_for_acceptance(s, m) is
\* normalized-equal to an item of m, also when another active member holds
\* an item of the same key; every returned item is an item of another
\* active member, and no two returned items have the same normalized key.
C21_ChecklistExcludesOwn ==
    \A s \in SessionCodes :
        (ret.op = "get_items_for_acceptance" /\ ret.session_id = s /\ Live(s)) =>
            /\ \A k \in 1..Len(ret.out) :
                   /\ \A own \in ItemsOf(s, ret.member_id) :
                          ~items_equal(ret.out[k], own)
                   /\ \E i \in ActiveIdx(s) :
                          /\ members[i].member_id # ret.member_id
                          /\ in_list(ret.out[k], members[i].items)
            /\ \A k, l \in 1..Len(ret.out) :
                   items_equal(ret.out[k], ret.out[l]) => k = l

-----------------------------------------------------------------------------
(* Creator and membership *)

\* the member ids of the rows of s, before and after the step
MemberIdsOf(s) == { members[i].member_id : i \in MemberIdx(s) }
MemberIdsAfter(s) ==
    { members'[i].member_id : i \in { j \in 1..Len(members') : members'[j].session_id = s } }

\* C22: a successful create_session leaves the session in ADDING with one
\* member row, the creator's, active, not ready and without items; in every
\* later step, leave_session included, the session stays, its creator id is
\* unchanged, no member id of the session disappears, and the creator has
\* exactly one row and is no observer, so that an active member exists.
C22_CreatorPersists ==
    [][\A s \in SessionCodes :
          /\ (Call("create_session", s) /\ ret'.out # None) =>
                 /\ ~Live(s)
                 /\ ret'.out = s
                 /\ sessions'[s].phase = PHASE_ADDING
                 /\ sessions'[s].creator_id = ret'.member_id
                 /\ MemberIdsAfter(s) = {ret'.member_id}
          /\ Live(s) =>
                 /\ s \in DOMAIN sessions'
                 /\ sessions'[s].creator_id = sessions[s].creator_id
                 /\ MemberIdsOf(s) \subseteq MemberIdsAfter(s)
          /\ s \in DOMAIN sessions' =>
                 LET rows == { j \in 1..Len(members') :
                                 /\ members'[j].session_id = s
                                 /\ members'[j].member_id = sessions'[s].creator_id }
                 IN  /\ Cardinality(rows) = 1
                     /\ \A j \in rows :
                            /\ ~members'[j].is_observer
                            /\ Call("create_session", s) =>
                                   /\ ~members'[j].is_ready
                                   /\ members'[j].items = <<>>
                                   /\ members'[j].accepted_items = <<>>
                     /\ \E j \in 1..Len(members') :
                            members'[j].session_id = s /\ ~members'[j].is_observer]_vars

\* C22 witness: the creator has just left a session of two members that is
\* past the adding phase; both rows are there and the creator's items too.
C22_Witness ==
    \E s \in SessionCodes :
        /\ Live(s) /\ Phase(s) = PHASE_RESULT
        /\ ret.op = "leave_session" /\ ret.session_id = s
        /\ ret.member_id = sessions[s].creator_id
        /\ Cardinality(MemberIdx(s)) = 2
        /\ \E i \in ActiveIdx(s) :
               members[i].member_id = ret.member_id /\ members[i].items # <<>>

-----------------------------------------------------------------------------
(* Activity tracking *)

\* the step changes the stored state of s: its session row, or a column
\* other than last_seen of one of its member rows, or the set of its rows
Mutates(s) ==
    \/ sessions'[s] # sessions[s]
    \/ MemberIdsAfter(s) # MemberIdsOf(s)
    \/ \E i \in MemberIdx(s) :
           [members'[i] EXCEPT !.last_seen = 0] # [members[i] EXCEPT !.last_seen = 0]

\* C23: every step of add_item, remove_item, set_ready, set_accepted_items,
\* join_session, check_and_advance_phase, roll_next, vote_restart or
\* start_fresh that changes the stored state of a session leaves the
\* session's last_activity at the time of the operation.
C23_ActivityTracked ==
    [][\A s \in SessionCodes :
          (/\ Live(s)
           /\ ret'.session_id = s
           /\ ret'.op \in {"add_item", "remove_item", "set_ready", "set_accepted_items",
                           "join_session", "check_and_advance_phase", "roll_next",
                           "vote_restart", "start_fresh"}
           /\ Mutates(s)) =>
              sessions'[s].last_activity = now]_vars

-----------------------------------------------------------------------------
(* The random index *)

\* the number of values of randint(length * 10000, length * 90000) for which
\* fair_random_select(length) returns index
Produced(length, index) ==
    Cardinality({ k \in 0..(length * 90000 - length * 10000) :
                    fair_random_select(length, k) = index })

\* C24: fair_random_select(n) returns 0 for n <= 0 and an index of 0..n-1
\* for n > 0, and every index of 0..n-1 is returned for the same number of
\* values of the closed range 10000*n..90000*n.
C24_FairSelectUniform ==
    ret.op = "fair_random_select" =>
        LET n == ret.arg.length
        IN  /\ n <= 0 => ret.out = 0
            /\ n > 0 =>
                   /\ ret.out \in 0..(n - 1)
                   /\ ret.out = ret.arg.rnd % n
                   /\ ret.arg.rnd = n * 10000 =>
                          \A i, j \in 0..(n - 1) : Produced(n, i) = Produced(n, j)

\* C24, with the counts the code has: fair_random_select(n) returns 0 for
\* n <= 0 and an index of 0..n-1 for n > 0; of the 80000*n + 1 values of the
\* closed range, 80001 give index 0 and 80000 give every other index.
C24_FairSelectNearUniform ==
    ret.op = "fair_random_select" =>
        LET n == ret.arg.length
        IN  /\ n <= 0 => ret.out = 0
            /\ n > 0 =>
                   /\ ret.out \in 0..(n - 1)
                   /\ ret.out = ret.arg.rnd % n
                   /\ ret.arg.rnd = n * 10000 =>
                          /\ Produced(n, 0) = 80001
                          /\ \A i \in 1..(n - 1) : Produced(n, i) = 80000

\* C24 witness: a list of three entries and the highest value of randint,
\* 270000, which gives index 0.
C24_Witness ==
    /\ ret.op = "fair_random_select"
    /\ ret.arg = [length |-> 3, rnd |-> 270000]
    /\ ret.out = 0

-----------------------------------------------------------------------------
(* Normalisation *)

\* the other case of a letter
SwapCase(c) ==
    CASE c = "a" -> "A" [] c = "A" -> "a" [] c = "b" -> "B" [] c = "B" -> "b" [] OTHER -> c

\* y is x with the case of one character changed, or with one whitespace
\* or punctuation character put in
OneEdit(x, y) ==
    \/ /\ Len(y) = Len(x)
       /\ \E i \in 1..Len(x) : y = [x EXCEPT ![i] = SwapCase(x[i])]
    \/ /\ Len(y) = Len(x) + 1
       /\ \E i \in 1..Len(y) :
              /\ y[i] \in Whitespace \cup Punctuation
              /\ x = SubSeq(y, 1, i - 1) \o SubSeq(y, i + 1, Len(y))

\* C25: normalize_item(normalize_item(x)) = normalize_item(x), and the
\* result holds lower-case letters and digits only; items_equal(a, a)
\* holds, items_equal(a, b) = items_equal(b, a), items_equal(a, b) holds
\* exactly when the normalized strings are the same, and it holds of two
\* strings that differ in the case of a character or by a whitespace or
\* punctuation character.
C25_NormalizeEquivalence ==
    /\ ret.op = "normalize_item" =>
           /\ normalize_item(ret.out) = ret.out
           /\ \A i \in 1..Len(ret.out) : ret.out[i] \in LowerCase \cup Digits
           /\ items_equal(ret.arg, ret.arg)
           /\ items_equal(ret.arg, ret.out)
    /\ ret.op = "items_equal" =>
           LET a == ret.arg.item1
               b == ret.arg.item2
           IN  /\ ret.out = items_equal(b, a)
               /\ ret.out = (normalize_item(a) = normalize_item(b))
               /\ a = b => ret.out
               /\ (OneEdit(a, b) \/ OneEdit(b, a)) => ret.out
               /\ ret.out =>
                      \A c \in Strings(1) : items_equal(a, c) = items_equal(b, c)

\* C25 witness: items_equal has just found "A!" and " a" equal.
C25_Witness ==
    /\ ret.op = "items_equal"
    /\ ret.arg = [item1 |-> <<"A", "!">>, item2 |-> <<" ", "a">>]
    /\ ret.out

-----------------------------------------------------------------------------
(* Concurrent calls *)

\* the place of a phase in the order ADDING, ACCEPTING, RESULT
Rank(phase) ==
    CASE phase = PHASE_ADDING -> 0
      [] phase = PHASE_ACCEPTING -> 1
      [] phase = PHASE_RESULT -> 2

\* every page has completed its call
AllIdle == \A p \in Pages : calls[p].pc = "idle"

\* the check_and_advance_phase of page p on session s returns phase in the step
ReturnsPhase(p, s, phase) ==
    /\ calls[p].pc = "set_session_phase" /\ calls[p].session_id = s
    /\ calls'[p].pc = "refresh" /\ calls'[p].out = phase

\* C26: with the store calls of concurrent set_ready and
\* check_and_advance_phase calls interleaved, no step moves the phase of a
\* session backward.
C26_NoPhaseRegression ==
    [][\A s \in SessionCodes :
          Live(s) => Rank(sessions'[s].phase) >= Rank(Phase(s))]_vars

\* C27: with the store calls interleaved, a check_and_advance_phase returns
\* ACCEPTING only in the step that takes the phase from ADDING, and RESULT
\* only in the step that takes it from ACCEPTING, so at most one call
\* returns each; and no step clears an is_ready flag once the phase has
\* left ADDING.
C27_AdvanceFiresOnce ==
    [][\A s \in SessionCodes :
          Live(s) =>
              /\ \A p \in Pages :
                     /\ ReturnsPhase(p, s, PHASE_ACCEPTING) => Phase(s) = PHASE_ADDING
                     /\ ReturnsPhase(p, s, PHASE_RESULT) => Phase(s) = PHASE_ACCEPTING
              /\ \A i \in MemberIdx(s) :
                     (members[i].is_ready /\ ~members'[i].is_ready) =>
                         Phase(s) = PHASE_ADDING]_vars

\* C28: when every page has completed its call and every active member of
\* a session has completed a toggle_ready to ready begun in the adding
\* phase, the phase is past ADDING; when every active member has completed
\* one begun in the accepting phase, the phase is RESULT.
C28_NoMissedAdvance ==
    \A s \in SessionCodes :
        (Live(s) /\ AllIdle) =>
            /\ (\A i \in ActiveIdx(s) : PHASE_ADDING \in done[members[i].member_id]) =>
                   Phase(s) # PHASE_ADDING
            /\ (\A i \in ActiveIdx(s) : PHASE_ACCEPTING \in done[members[i].member_id]) =>
                   Phase(s) = PHASE_RESULT

\* C29: with the read and the write of add_restart_vote interleaved, once
\* every page has completed its call the stored restart votes hold every
\* member that has completed a vote_restart, and the vote_restart that
\* completes last among those of all active members reports all_voted.
C29_NoLostVote ==
    [][\A s \in SessionCodes :
          Live(s) =>
              /\ (\A p \in Pages : calls'[p].pc = "idle") =>
                     \A m \in MemberIds :
                         "vote_restart" \in done'[m] =>
                             in_list(m, sessions'[s].restart_votes)
              /\ \A p \in Pages :
                     (/\ calls[p].pc = "get_active_members" /\ calls[p].session_id = s
                      /\ calls'[p].pc = "idle"
                      /\ \A i \in ActiveIdx(s) :
                             "vote_restart" \in done'[members[i].member_id]) =>
                         ret'.out.all_voted]_vars

-----------------------------------------------------------------------------
(* Progress of the barrier *)

\* the clock runs long enough for every member of s that is not ready to
\* become stale
Room(s) ==
    \A i \in ActiveIdx(s) :
        ~members[i].is_ready =>
            members[i].last_seen + AUTO_READY_TIMEOUT < MaxTicks * TickSeconds

\* the last step was the activity of a member of s that is not ready, or
\* set a readiness flag by hand, or restarted the session
Activity(s) ==
    /\ ret.session_id = s
    /\ \/ ret.op \in {"set_ready", "start_fresh"}
       \/ /\ ret.op \in {"join_session", "update_member_last_seen"}
          /\ \E i \in ActiveIdx(s) :
                 members[i].member_id = ret.member_id /\ ~members[i].is_ready

-----------------------------------------------------------------------------
(* Promotion and advancement in the application *)

AllStoredReady(s) == \A i \in ActiveIdx(s) : members[i].is_ready

\* C31: in the application, a step that takes a session in ADDING or
\* ACCEPTING from a state where some active member is stored as not ready
\* to one where every active member is stored as ready changes the phase:
\* the session is never left with everybody ready and the phase unchanged.
C31_PromotionAdvances ==
    [][\A s \in SessionCodes :
          (/\ Live(s) /\ Phase(s) \in {PHASE_ADDING, PHASE_ACCEPTING}
           /\ ~AllStoredReady(s)
           /\ AllStoredReady(s)') =>
              Phase(s)' # Phase(s)]_vars

-----------------------------------------------------------------------------
(* Reaching the restart in the application *)

\* a page of member m offers an action that casts m's restart vote:
\* do_start_fresh, the only handler that calls vote_restart, is a creator
\* control
CanVoteRestart(s, m) == CreatorControls(s, m)

\* C32: in the application, in a session in RESULT with two or more active
\* members, every active member has an enabled action that casts its
\* restart vote.
C32_EveryMemberCanVote ==
    \A s \in SessionCodes :
        (Live(s) /\ Phase(s) = PHASE_RESULT /\ Cardinality(ActiveIdx(s)) >= 2) =>
            \A i \in ActiveIdx(s) : CanVoteRestart(s, members[i].member_id)

-----------------------------------------------------------------------------
(* Refused calls *)

Refusable == {"add_item", "remove_item", "set_ready", "set_accepted_items",
              "join_session"}

\* C33: a call of add_item, remove_item, set_ready, set_accepted_items or
\* join_session that returns success = False leaves both tables as they
\* were: every field of the session and of every member, last_seen and
\* last_activity included.
C33_FailuresHaveNoEffect ==
    [][(ret'.op \in Refusable /\ ~ret'.out.success) =>
          (sessions' = sessions /\ members' = members)]_vars

\* C33 witness: an observer's set_ready was refused two ticks after the
\* observer and its session were last written.
C33_Witness ==
    \E s \in SessionCodes :
        /\ Live(s)
        /\ ret.op = "set_ready" /\ ret.session_id = s
        /\ ret.out = [success |-> FALSE, error |-> "Observers cannot set ready status"]
        /\ now = MaxTicks * TickSeconds
        /\ sessions[s].last_activity = 0
        /\ \E i \in MemberIdx(s) :
               /\ members[i].member_id = ret.member_id
               /\ members[i].is_observer /\ members[i].last_seen = 0

-----------------------------------------------------------------------------
(* Observers and the adding phase, with join_session interleaved *)

NewActiveIds(s) ==
    { members'[i].member_id :
          i \in { j \in DOMAIN members' : /\ members'[j].session_id = s
                                          /\ ~members'[j].is_observer } }
        \ MemberIdsOf(s)

\* C34: also when the store calls of join_session interleave with those of
\* start_fresh or with check_and_advance_phase, an observer is never stored
\* in a session whose phase is ADDING, and a member is added as an active
\* member only to a session whose phase is ADDING.
C34_NoObserversDuringAdding ==
    [][\A s \in SessionCodes :
          (s \in DOMAIN sessions') =>
              /\ sessions'[s].phase = PHASE_ADDING =>
                     \A i \in DOMAIN members' :
                         members'[i].session_id = s => ~members'[i].is_observer
              /\ (s \in DOMAIN sessions /\ NewActiveIds(s) # {}) =>
                     sessions'[s].phase = PHASE_ADDING]_vars

-----------------------------------------------------------------------------
(* Observers and the round *)

\* C35: every observer has an empty items list, an empty accepted_items
\* list and is_ready = false.
C35_ObserversCarryNothing ==
    \A i \in DOMAIN members :
        members[i].is_observer =>
            /\ members[i].items = <<>>
            /\ members[i].accepted_items = <<>>
            /\ ~members[i].is_ready

\* C35 witness: get_ready_status has counted the active members of a
\* session, all ready, that holds an observer seen more than
\* AUTO_READY_TIMEOUT ago, which is still not ready.
C35_Witness ==
    \E s \in SessionCodes :
        /\ Live(s)
        /\ ret.op = "get_ready_status" /\ ret.session_id = s
        /\ ret.out.all_ready
        /\ \E i \in MemberIdx(s) :
               /\ members[i].is_observer
               /\ now - members[i].last_seen > AUTO_READY_TIMEOUT
               /\ ~members[i].is_ready

====
